---- MODULE Spec2Model ----
(***************************************************************************)
(* A model of the ingestion -> quality gate -> store -> embedding ->       *)
(* search pipeline of rwa-chatbot-api.                                     *)
(*                                                                         *)
(* Conventions of the model                                                *)
(*   - Python None for a string is the string NoneStr, for a list the      *)
(*     sequence NoneSeq; SQL NULL of the embedding column is NULL (<<>>),  *)
(*     a populated embedding is <<v>>.                                     *)
(*   - A text_blob is the sequence of its lower-case words.                *)
(*   - An embedding vector is one of six unit directions 0..5 (60 degree   *)
(*     steps); scores are in hundredths (100 = 1.0).                       *)
(*   - updated_at is not kept: the code reads it only to order the rows  *)
(*     an embedding run selects, and the model allows every order.         *)
(***************************************************************************)
EXTENDS Integers, Sequences, FiniteSets, TLC

VARIABLES
    rows,        \* the table chatbot.objects: a set of rows
    upPc,        \* upsert_records_batch: "idle" | "running"
    upPending,   \* records of the running call not yet handed to upsert_records
    upTotal,     \* total_processed of the running call
    upLog,       \* history: the batches of the last upsert_records_batch call
    upRet,       \* what the last finished upsert call returned
    expected,    \* history: for each key upserted so far, the data of its last record
    upAllOk,     \* history: every upsert so far succeeded completely
    embPc,       \* embed_all: "idle" | "batching" | "done"
    embRecords,  \* the selected records (id, text_blob) not yet processed
    embStats,    \* stats of the running / last embed_all
    embClean,    \* history: the running / last embed_all had no limit, no failure,
                 \* and no upsert changed the table since it selected its records
    qcPc,        \* a QualityChecker: "none" | "new" | "checked" | "rechecked"
    qcSelf,      \* its fields site_id, quality_issues, warnings
    qcBatch,     \* the records handed to its run_all_checks
    qcResults,   \* what run_all_checks returned
    idxPc,       \* index_site: "idle" | "signed_in" | "prepared" | "gated" |
                 \*             "upserting" | "returned"
    idxArgs,     \* enable_quality_checks and max_objects of the run
    idxRecords,  \* the records of the run
    idxStats,    \* the stats dictionary of the run
    idxGate,     \* history: "none" | "blocked" | "passed" | "skipped" | "crashed"
    idxSignin,   \* history: how the sign-in of the run ended
    idxSignout,  \* history: the signouts the run attempted, and the exception
                 \* of a signout that left index_site, if any
    idxRowsBefore, \* history: the table when the run started
    cliSelf,     \* a TableauClient: its fields token and site_id
    cliAuth,     \* history: a signin succeeded and no signout succeeded since
    cliCall,     \* the last call on the client and how it ended
    cliMeta,     \* what the last call returned if it was fetch_comprehensive_metadata
    pgPc,        \* a page loop: "idle" | "fetching" | "done"
    pgArgs,      \* its operation, page size and page cap, and the size of the
                 \* collection the server holds
    pgPage,      \* the page it asks for next
    pgAll,       \* the items it has collected
    pgRequests,  \* the page requests it has issued
    pgClean,     \* history: no page cap and no fetch failure
    pgOutcome,   \* history: whether a fetch of the loop failed, and the exception
                 \* that left the loop, if any
    srchCall,    \* the last search call and what it returned
    srchFilter,  \* the last search_by_type / search_by_project call, if it was
                 \* made after the last search: its arguments, the list its
                 \* search returned, and how it ended
    rlSelf,      \* a RateLimiter: max_requests_per_minute and requests
    rlNow,       \* the clock, in ticks
    rlIssued,    \* history: the times at which the limiter sent a request
    nzOut        \* the last payload normalized, by which builder, and the record

storeVars == <<rows, upPc, upPending, upTotal, upLog, upRet, expected, upAllOk>>
embedVars == <<embPc, embRecords, embStats, embClean>>
qcVars == <<qcPc, qcSelf, qcBatch, qcResults>>
idxVars == <<idxPc, idxArgs, idxRecords, idxStats, idxGate, idxSignin, idxSignout,
            idxRowsBefore>>
(* everything but the store and the embedding generator *)
cliVars == <<cliSelf, cliAuth, cliCall, cliMeta>>
pgVars == <<pgPc, pgArgs, pgPage, pgAll, pgRequests, pgClean, pgOutcome>>
srchVars == <<srchCall, srchFilter>>
rlVars == <<rlSelf, rlNow, rlIssued>>
toolVars == <<rlVars, nzOut>>
(* the platform client, the page loops, the search and the rate limiter *)
edgeVars == <<cliVars, pgVars, srchVars, toolVars>>
restVars == <<qcVars, idxVars, edgeVars>>
vars == <<storeVars, embedVars, restVars>>

----------------------------------------------------------------------------
(* Bounds of the model *)

MaxRecords == 3      \* longest record list handed to one upsert call
MaxLimit == 1        \* largest limit handed to embed_all (0 stands for None)
MaxQcBatch == 2      \* longest batch handed to a QualityChecker
MaxQcAgain == 1      \* longest batch handed to a QualityChecker that has run
MaxIdxRecords == 3   \* most records one index_site run prepares
MaxObjects == 1      \* largest max_objects of index_site (0 stands for None)
MaxItems == 4        \* largest collection a page loop reads
MaxPageSize == 2     \* largest page_size of a PaginationHelper
MaxPages == 1        \* largest max_pages of a PaginationHelper (0 stands for None)
MaxSearchLimit == 2  \* largest limit of a search
MaxWorkbooks == 2    \* most workbooks the platform lists to a metadata fetch
MaxRate == 2         \* largest max_requests_per_minute of a RateLimiter
MaxTime == 5         \* the last tick of the clock
MaxIssued == 4       \* most requests sent through one RateLimiter

(* batch_size arguments, scaled down from the code's 100 / 50 *)
UpsertBatchSize == 2
EmbedBatchSize == 2

----------------------------------------------------------------------------
(* Values *)

NoneStr == "<None>"
NoneSeq == <<"<None>">>
NULL == <<>>

Min(a, b) == IF a < b THEN a ELSE b
MaxOf(S) == CHOOSE x \in S : \A y \in S : y <= x

RECURSIVE SumSeq(_)
SumSeq(s) == IF s = <<>> THEN 0 ELSE Head(s) + SumSeq(Tail(s))

(* Sample records, as the normalizer hands them to the store.  RecA2 has the
   key of RecA with every other attribute changed; RecB has the site and the
   object id of RecA and another type. *)
RecA == [site_id |-> "S1", object_type |-> "workbook", object_id |-> "w1",
         title |-> "Sales", description |-> "weekly", tags |-> <<"kpi">>,
         fields |-> <<>>, project_name |-> "Finance", owner |-> "ann",
         url |-> "workbooks/sales",
         text_blob |-> <<"sales", "weekly", "kpi", "finance", "ann">>]
RecA2 == [site_id |-> "S1", object_type |-> "workbook", object_id |-> "w1",
          title |-> "Sales v2", description |-> "", tags |-> NoneSeq,
          fields |-> NoneSeq, project_name |-> NoneStr, owner |-> NoneStr,
          url |-> "", text_blob |-> <<"sales", "v2">>]
RecB == [site_id |-> "S1", object_type |-> "view", object_id |-> "w1",
         title |-> "Budget", description |-> "", tags |-> <<>>,
         fields |-> <<>>, project_name |-> "Finance", owner |-> NoneStr,
         url |-> "views/budget", text_blob |-> <<"budget", "finance">>]
SampleRecords == {RecA, RecA2, RecB}

SeqsUpTo(S, n) == UNION {[1..k -> S] : k \in 0..n}

----------------------------------------------------------------------------
(* The embedding model: a fixed function from a text to a unit vector *)

WordCode(w) ==
    CASE w = "sales" -> 1 [] w = "weekly" -> 2 [] w = "kpi" -> 3
      [] w = "finance" -> 4 [] w = "ann" -> 5 [] w = "v2" -> 4
      [] w = "budget" -> 3 [] OTHER -> 0

Encode(text) == SumSeq([i \in 1..Len(text) |-> WordCode(text[i])]) % 6

----------------------------------------------------------------------------
(* Store: UPSERT_SQL, upsert_records, upsert_records_batch *)

Key(r) == <<r.site_id, r.object_type, r.object_id>>

(* record.get("tags") or [] *)
OrEmptyList(v) == IF v = NoneSeq THEN <<>> ELSE v

RecordData(record) ==
    [site_id |-> record.site_id, object_type |-> record.object_type,
     object_id |-> record.object_id, title |-> record.title,
     description |-> record.description, tags |-> OrEmptyList(record.tags),
     fields |-> OrEmptyList(record.fields), project_name |-> record.project_name,
     owner |-> record.owner, url |-> record.url, text_blob |-> record.text_blob]

(* The columns UPSERT_SQL writes, read back from a row *)
RowData(r) ==
    [site_id |-> r.site_id, object_type |-> r.object_type,
     object_id |-> r.object_id, title |-> r.title,
     description |-> r.description, tags |-> r.tags,
     fields |-> r.fields, project_name |-> r.project_name,
     owner |-> r.owner, url |-> r.url, text_blob |-> r.text_blob]

FreshId(rs) == IF rs = {} THEN 1 ELSE MaxOf({r.id : r \in rs}) + 1

InsertRow(rs, d) ==
    rs \cup {[id |-> FreshId(rs), site_id |-> d.site_id,
              object_type |-> d.object_type, object_id |-> d.object_id,
              title |-> d.title, description |-> d.description, tags |-> d.tags,
              fields |-> d.fields, project_name |-> d.project_name,
              owner |-> d.owner, url |-> d.url, text_blob |-> d.text_blob,
              embedding |-> NULL]}

(* the mutant of UPSERT_SQL: a plain INSERT, no ON CONFLICT arm *)
UPSERT_SQL_PlainInsert(rs, d) == InsertRow(rs, d)

(* the mutant of UPSERT_SQL: ON CONFLICT DO NOTHING (first write wins) *)
UPSERT_SQL_DoNothing(rs, d) ==
    IF \E r \in rs : Key(r) = Key(d) THEN rs ELSE InsertRow(rs, d)

(* INSERT ... ON CONFLICT (site_id, object_type, object_id) DO UPDATE SET ...
   The embedding column is not in the SET list. *)
UPSERT_SQL(rs, d) ==
    IF \E r \in rs : Key(r) = Key(d)
    THEN {IF Key(r) = Key(d)
          THEN [r EXCEPT !.title = d.title, !.description = d.description,
                         !.tags = d.tags, !.fields = d.fields,
                         !.project_name = d.project_name, !.owner = d.owner,
                         !.url = d.url, !.text_blob = d.text_blob]
          ELSE r : r \in rs}
    ELSE InsertRow(rs, d)

(* How one statement ends: "ok"; "client_error", raised before the statement
   reaches the server (the transaction stays usable); "server_error", raised
   by the server (the transaction is aborted: every later statement fails and
   the final COMMIT rolls back). *)
Outcomes == {"ok", "client_error", "server_error"}

(* instead of the outcomes of the statements: the connection could not be
   opened, or the model could not encode the batch, and no statement ran *)
NoConnection == <<"no_connection">>

AllOk(outcomes) == \A i \in 1..Len(outcomes) : outcomes[i] = "ok"

(* the for loop of upsert_records, inside one transaction *)
RECURSIVE UpsertLoop(_, _, _)
UpsertLoop(st, records, outcomes) ==
    IF records = <<>> THEN st
    ELSE LET o == Head(outcomes)
             st2 == IF st.aborted \/ o = "client_error" THEN st
                    ELSE IF o = "server_error" THEN [st EXCEPT !.aborted = TRUE]
                    ELSE [st EXCEPT
                            !.rows = UPSERT_SQL(st.rows, RecordData(Head(records))),
                            !.count = @ + 1]
         IN UpsertLoop(st2, Tail(records), Tail(outcomes))

(* upsert_records on a non-empty list with a working connection: the rows
   after the transaction ended and the returned processed_count *)
upsert_records(rs, records, outcomes) ==
    LET st == UpsertLoop([rows |-> rs, aborted |-> FALSE, count |-> 0],
                         records, outcomes)
    IN [rows |-> IF st.aborted THEN rs ELSE st.rows,
        committed |-> ~st.aborted,
        count |-> st.count]


(* history: the data of the last record of each key of a list *)
LastWrites(records) ==
    {RecordData(records[i]) :
        i \in {i \in 1..Len(records) :
                 \A j \in (i+1)..Len(records) : Key(records[j]) # Key(records[i])}}

ExpectedAfter(exp, records) ==
    {e \in exp : \A i \in 1..Len(records) : Key(records[i]) # Key(e)}
        \cup LastWrites(records)

SubsetsOfSize(S, n) == {T \in SUBSET S : Cardinality(T) = n}

----------------------------------------------------------------------------
(* Store actions *)

Returned(n) == [raised |-> FALSE, count |-> n]
Raised == [raised |-> TRUE, count |-> 0]
NoReturn == [raised |-> FALSE, count |-> -1]

(* history of one upsert_records_batch call: the length of its list and, for
   each batch attempted so far, its size, whether its transaction was
   committed, and the count it returned (0 if upsert_records raised).
   LogOff: no history is kept (the specifications whose claims do not read it) *)
NoLog == [n |-> 0, batches |-> <<>>]
LogOff == [n |-> -1, batches |-> <<>>]
ClearLog == IF upLog = LogOff THEN LogOff ELSE NoLog
NewLog(records) ==
    IF upLog = LogOff THEN LogOff ELSE [n |-> Len(records), batches |-> <<>>]

(* the history of the upserts, kept while every upsert succeeded *)
History(ok, exp) == IF ok THEN exp ELSE {}

(* upsert_records(records), called directly (writer.upsert_objects) *)
UpsertRecordsCall(records) ==
    /\ upPc = "idle"
    /\ IF records = <<>>
       THEN /\ upRet' = Returned(0)
            /\ UNCHANGED <<rows, expected, upAllOk, embClean>>
       ELSE \E outcomes \in [1..Len(records) -> Outcomes] \cup {NoConnection} :
              LET connOk == outcomes # NoConnection
                  res == upsert_records(rows, records, outcomes)
                  ok == upAllOk /\ connOk /\ AllOk(outcomes)
              IN /\ rows' = IF connOk THEN res.rows ELSE rows
                 /\ upRet' = IF connOk THEN Returned(res.count) ELSE Raised
                 /\ upAllOk' = ok
                 /\ expected' = History(ok, ExpectedAfter(expected, records))
                 /\ embClean' = (embClean /\ rows' = rows)
    /\ upLog' = ClearLog
    /\ UNCHANGED <<upPc, upPending, upTotal>>
    /\ UNCHANGED <<embPc, embRecords, embStats, restVars>>

(* one iteration of the batch loop of upsert_records_batch over `pending`, with
   `total` processed so far: upsert_records(batch) in its own transaction; an
   exception of the batch is logged and the loop continues *)
BatchIteration(pending, total, log) ==
    LET n == Min(UpsertBatchSize, Len(pending))
        batch == SubSeq(pending, 1, n)
        rest == SubSeq(pending, n + 1, Len(pending))
    IN \E outcomes \in [1..n -> Outcomes] \cup {NoConnection} :
         LET connOk == outcomes # NoConnection
             res == upsert_records(rows, batch, outcomes)
             total2 == IF connOk THEN total + res.count ELSE total
             ok == upAllOk /\ connOk /\ AllOk(outcomes)
             entry == [size |-> n,
                       committed |-> connOk /\ res.committed,
                       count |-> IF connOk THEN res.count ELSE 0]
         IN /\ rows' = IF connOk THEN res.rows ELSE rows
            /\ upLog' = IF log = LogOff THEN LogOff
                        ELSE [log EXCEPT !.batches = Append(@, entry)]
            /\ upPending' = rest
            /\ upPc' = IF rest = <<>> THEN "idle" ELSE "running"
            /\ upTotal' = IF rest = <<>> THEN 0 ELSE total2
            /\ upRet' = IF rest = <<>> THEN Returned(total2) ELSE NoReturn
            /\ upAllOk' = ok
            /\ expected' = History(ok, ExpectedAfter(expected, batch))
            /\ embClean' = (embClean /\ rows' = rows)

(* upsert_records_batch(records, batch_size): entry and first batch *)
UpsertBatchCall(records) ==
    /\ upPc = "idle"
    /\ IF records = <<>>
       THEN /\ upRet' = Returned(0)
            /\ upLog' = ClearLog
            /\ UNCHANGED <<rows, upPc, upPending, upTotal, expected, upAllOk, embClean>>
       ELSE BatchIteration(records, 0, NewLog(records))
    /\ UNCHANGED <<embPc, embRecords, embStats, restVars>>

(* upsert_records_batch: a later batch *)
UpsertBatchStep ==
    /\ upPc = "running"
    /\ BatchIteration(upPending, upTotal, upLog)
    /\ UNCHANGED <<embPc, embRecords, embStats, restVars>>

----------------------------------------------------------------------------
(* Embedding generator: get_unembedded_records, update_embeddings, embed_all *)

Unembedded(rs) == {r \in rs : r.embedding = NULL}

(* the mutant of get_unembedded_records: the query always carries LIMIT 1 *)
get_unembedded_records_AlwaysLimited(rs, limit) ==
    LET U == {[id |-> r.id, text_blob |-> r.text_blob] : r \in {q \in rs : q.embedding = NULL}}
    IN {T \in SUBSET U : Cardinality(T) = Min(1, Cardinality(U))}

(* SELECT id, text_blob ... WHERE embedding IS NULL ORDER BY updated_at DESC
   [LIMIT limit]: the sets of records the call may return.  "if limit:" adds
   the LIMIT only for a limit that is neither None nor 0.  The timestamps are
   not modelled, so a LIMIT may keep any rows. *)
get_unembedded_records(rs, limit) ==
    LET U == {[id |-> r.id, text_blob |-> r.text_blob] : r \in Unembedded(rs)}
    IN IF limit = 0 THEN {U} ELSE SubsetsOfSize(U, Min(limit, Cardinality(U)))

(* UPDATE chatbot.objects SET embedding = :embedding WHERE id = :id *)
UPDATE_SQL(rs, id, embedding) ==
    {IF r.id = id THEN [r EXCEPT !.embedding = <<embedding>>] ELSE r : r \in rs}

(* the for loop of update_embeddings, inside one transaction; embeddings[i] is
   the embedding of records[i].text_blob *)
RECURSIVE UpdateLoop(_, _, _)
UpdateLoop(st, records, outcomes) ==
    IF records = <<>> THEN st
    ELSE LET o == Head(outcomes)
             rec == Head(records)
             st2 == IF st.aborted \/ o = "client_error" THEN st
                    ELSE IF o = "server_error" THEN [st EXCEPT !.aborted = TRUE]
                    ELSE [st EXCEPT
                            !.rows = UPDATE_SQL(st.rows, rec.id, Encode(rec.text_blob)),
                            !.count = @ + 1]
         IN UpdateLoop(st2, Tail(records), Tail(outcomes))

update_embeddings(rs, records, outcomes) ==
    LET st == UpdateLoop([rows |-> rs, aborted |-> FALSE, count |-> 0],
                         records, outcomes)
    IN [rows |-> IF st.aborted THEN rs ELSE st.rows, count |-> st.count]

NoStats == [total_records |-> 0, processed_records |-> 0, errors |-> 0]

(* the orders in which a set of records may stand in a list *)
Orders(S) == {s \in [1..Cardinality(S) -> S] :
                 \A i, j \in 1..Cardinality(S) : i # j => s[i] # s[j]}

(* embed_all(limit, batch_size): load the model and select the work *)
EmbedStart(limit) ==
    /\ embPc \in {"idle", "done"}
    /\ \E startOk \in BOOLEAN :
         IF startOk
         THEN \E records \in get_unembedded_records(rows, limit) :
                /\ embStats' = [NoStats EXCEPT !.total_records = Cardinality(records)]
                /\ embRecords' = records
                /\ embPc' = IF records = {} THEN "done" ELSE "batching"
                /\ embClean' = (limit = 0)
         ELSE /\ embStats' = [NoStats EXCEPT !.errors = 1]
              /\ embRecords' = {}
              /\ embPc' = "done"
              /\ embClean' = FALSE
    /\ UNCHANGED <<storeVars, restVars>>

(* one iteration of the batch loop of embed_all: the next batch_size records
   of the list, in whatever order the selection returned them *)
EmbedBatch ==
    /\ embPc = "batching"
    /\ \E picked \in SubsetsOfSize(embRecords, Min(EmbedBatchSize, Cardinality(embRecords))) :
       \E batch \in Orders(picked) :
       \E outcomes \in [1..Len(batch) -> Outcomes] \cup {NoConnection} :
            LET res == update_embeddings(rows, batch, outcomes)
                rest == embRecords \ picked
            IN /\ IF outcomes # NoConnection
                  THEN /\ rows' = res.rows
                       /\ embStats' = [embStats EXCEPT !.processed_records = @ + res.count]
                       /\ embClean' = (embClean /\ AllOk(outcomes))
                  ELSE /\ rows' = rows
                       /\ embStats' = [embStats EXCEPT !.errors = @ + 1]
                       /\ embClean' = FALSE
               /\ embRecords' = rest
               /\ embPc' = IF rest = {} THEN "done" ELSE "batching"
    /\ UNCHANGED <<upPc, upPending, upTotal, upLog, upRet, expected, upAllOk, restVars>>

----------------------------------------------------------------------------
(* Quality gate: QualityChecker *)

(* thresholds of the advisory checks, in characters *)
ShortDescription == 10
LongDescription == 500
ShortTextBlob == 20
LongTextBlob == 2000

(* record.get(field, default) *)
Get(record, field, default) ==
    IF field \in DOMAIN record THEN record[field] ELSE default

(* "not s" for a string or None *)
NotStr(s) == s = NoneStr \/ s = ""

(* s.strip() == "" *)
IsBlank(s) == \A i \in 1..Len(s) : SubSeq(s, i, i) = " "

(* s.startswith(prefix) *)
StartsWith(s, prefix) ==
    Len(s) >= Len(prefix) /\ SubSeq(s, 1, Len(prefix)) = prefix

(* len(text_blob): the words and the single spaces between them *)
TextLen(text) ==
    IF text = <<>> THEN 0
    ELSE SumSeq([i \in 1..Len(text) |-> Len(text[i])]) + Len(text) - 1

RECURSIVE Flatten(_)
Flatten(ss) == IF ss = <<>> THEN <<>> ELSE Head(ss) \o Flatten(Tail(ss))

Count(records, P(_)) == Cardinality({i \in 1..Len(records) : P(records[i])})

QualityChecker(site_id) ==
    [site_id |-> site_id, quality_issues |-> <<>>, warnings |-> <<>>]

(* "not record.get(field)" for a required field *)
MissingField(record, field) ==
    IF field = "text_blob" THEN Get(record, field, <<>>) = <<>>
    ELSE NotStr(Get(record, field, NoneStr))

check_site_isolation(self, records) ==
    LET issue(i) ==
            LET record_site_id == Get(records[i], "site_id", NoneStr)
            IN IF NotStr(record_site_id)
               THEN <<[record |-> i - 1, issue |-> "Missing site_id", field |-> "site_id"]>>
               ELSE IF record_site_id # self.site_id
               THEN <<[record |-> i - 1, issue |-> "Incorrect site_id", field |-> "site_id"]>>
               ELSE <<>>
        issues == Flatten([i \in 1..Len(records) |-> issue(i)])
    IN [self |-> [self EXCEPT !.quality_issues = @ \o issues], ok |-> issues = <<>>]

required_fields == <<"object_id", "title", "object_type", "text_blob">>

check_required_fields(self, records) ==
    LET issue(i, f) ==
            IF MissingField(records[i], required_fields[f])
            THEN <<[record |-> i - 1, issue |-> "Missing required field",
                    field |-> required_fields[f]]>>
            ELSE <<>>
        ofRecord(i) == Flatten([f \in 1..Len(required_fields) |-> issue(i, f)])
        issues == Flatten([i \in 1..Len(records) |-> ofRecord(i)])
    IN [self |-> [self EXCEPT !.quality_issues = @ \o issues], ok |-> issues = <<>>]

Warning(kind, count, total) == [warning |-> kind, count |-> count, total |-> total]

(* a warning when the condition holds *)
WarnIf(cond, w) == IF cond THEN <<w>> ELSE <<>>

check_description_quality(self, records) ==
    LET desc(r) == Get(r, "description", "")
        without(r) == NotStr(desc(r))
        empty(r) == ~without(r) /\ IsBlank(desc(r))
        with(r) == ~without(r) /\ ~IsBlank(desc(r))
        short(r) == with(r) /\ Len(desc(r)) < ShortDescription
        long(r) == with(r) /\ ~short(r) /\ Len(desc(r)) > LongDescription
        total == Len(records)
        stats == [total_records |-> total,
                  with_descriptions |-> Count(records, with),
                  without_descriptions |-> Count(records, without),
                  empty_descriptions |-> Count(records, empty),
                  short_descriptions |-> Count(records, short),
                  long_descriptions |-> Count(records, long)]
        ws == WarnIf(2 * stats.without_descriptions > total,
                     Warning("without descriptions", stats.without_descriptions, total))
              \o WarnIf(10 * stats.short_descriptions > 3 * total,
                        Warning("short descriptions", stats.short_descriptions, total))
    IN [self |-> [self EXCEPT !.warnings = @ \o ws], stats |-> stats]

check_url_quality(self, records) ==
    LET url(r) == Get(r, "url", "")
        with(r) == ~NotStr(url(r))
        malformed(r) ==
            with(r) /\ ~(\/ StartsWith(url(r), "views/")
                         \/ StartsWith(url(r), "workbooks/")
                         \/ StartsWith(url(r), "datasources/"))
        deep(r) == ~NotStr(Get(r, "deep_link_url", ""))
        nodeep(r) == ~deep(r)
        without(r) == ~with(r)
        total == Len(records)
        stats == [total_records |-> total,
                  with_urls |-> Count(records, with),
                  without_urls |-> Count(records, without),
                  with_deep_links |-> Count(records, deep),
                  without_deep_links |-> Count(records, nodeep),
                  malformed_urls |-> Count(records, malformed)]
        ws == WarnIf(stats.malformed_urls > 0,
                     Warning("malformed urls", stats.malformed_urls, total))
              \o WarnIf(10 * stats.without_deep_links > total,
                        Warning("without deep links", stats.without_deep_links, total))
    IN [self |-> [self EXCEPT !.warnings = @ \o ws], stats |-> stats]

check_text_blob_quality(self, records) ==
    LET blob(r) == Get(r, "text_blob", <<>>)
        empty(r) == blob(r) = <<>>
        short(r) == ~empty(r) /\ TextLen(blob(r)) < ShortTextBlob
        long(r) == ~empty(r) /\ ~short(r) /\ TextLen(blob(r)) > LongTextBlob
        total == Len(records)
        total_length == SumSeq([i \in 1..total |-> TextLen(blob(records[i]))])
        stats == [total_records |-> total,
                  empty_text_blobs |-> Count(records, empty),
                  short_text_blobs |-> Count(records, short),
                  long_text_blobs |-> Count(records, long),
                  \* average_length, rounded down
                  average_length |-> IF total > 0 THEN total_length \div total ELSE 0]
        ws == WarnIf(stats.empty_text_blobs > 0,
                     Warning("empty text blobs", stats.empty_text_blobs, total))
              \o WarnIf(5 * stats.short_text_blobs > total,
                        Warning("short text blobs", stats.short_text_blobs, total))
    IN [self |-> [self EXCEPT !.warnings = @ \o ws], stats |-> stats]

(* the mutant of run_all_checks: a warning fails the gate as an issue does *)
run_all_checks_WarningsBlock(self, records) ==
    LET c1 == check_site_isolation(self, records)
        c2 == check_required_fields(c1.self, records)
        c3 == check_description_quality(c2.self, records)
        c4 == check_url_quality(c3.self, records)
        c5 == check_text_blob_quality(c4.self, records)
    IN [self |-> c5.self,
        results |-> [site_isolation |-> c1.ok, required_fields |-> c2.ok,
                     description_quality |-> c3.stats, url_quality |-> c4.stats,
                     text_blob_quality |-> c5.stats,
                     issues |-> c5.self.quality_issues,
                     warnings |-> c5.self.warnings,
                     overall_quality |-> c1.ok /\ c2.ok /\ c5.self.warnings = <<>>]]

(* run_all_checks: the five checks in order on one checker; "issues" and
   "warnings" are the checker's own lists; overall_quality is all() of the two
   critical checks *)
run_all_checks(self, records) ==
    LET c1 == check_site_isolation(self, records)
        c2 == check_required_fields(c1.self, records)
        c3 == check_description_quality(c2.self, records)
        c4 == check_url_quality(c3.self, records)
        c5 == check_text_blob_quality(c4.self, records)
    IN [self |-> c5.self,
        results |-> [site_isolation |-> c1.ok, required_fields |-> c2.ok,
                     description_quality |-> c3.stats, url_quality |-> c4.stats,
                     text_blob_quality |-> c5.stats,
                     issues |-> c5.self.quality_issues,
                     warnings |-> c5.self.warnings,
                     overall_quality |-> c1.ok /\ c2.ok]]

(* Records with a blocking failure, and one with advisory findings only *)
RecForeign == [RecA EXCEPT !.site_id = "S2"]
RecNoSite == [RecB EXCEPT !.site_id = NoneStr]
RecNoId == [RecB EXCEPT !.object_id = ""]
RecBlank == [RecA2 EXCEPT !.title = " ", !.text_blob = <<>>]
RecBadUrl == [RecA EXCEPT !.url = "http://tableau/sales", !.description = " "]
QcRecords == {RecA, RecB, RecForeign, RecNoSite, RecNoId, RecBlank, RecBadUrl}
Sites == {"S1", "S2"}

NoResults == [overall_quality |-> FALSE]

(* QualityChecker(site_id, site_name) *)
QcNew(site_id) ==
    /\ qcSelf' = QualityChecker(site_id)
    /\ qcPc' = "new"
    /\ qcBatch' = <<>>
    /\ qcResults' = NoResults
    /\ UNCHANGED <<storeVars, embedVars, idxVars, edgeVars>>

(* run_all_checks(records) on a checker that has not run yet *)
QcRunAllChecks(records) ==
    /\ qcPc = "new"
    /\ LET r == run_all_checks(qcSelf, records)
       IN /\ qcSelf' = r.self
          /\ qcResults' = r.results
    /\ qcBatch' = records
    /\ qcPc' = "checked"
    /\ UNCHANGED <<storeVars, embedVars, idxVars, edgeVars>>

(* run_all_checks(records) once more on the same checker, which keeps the
   quality_issues and warnings of its first run *)
QcRunAgain(records) ==
    /\ qcPc = "checked"
    /\ LET r == run_all_checks(qcSelf, records)
       IN /\ qcSelf' = r.self
          /\ qcResults' = r.results
    /\ qcBatch' = records
    /\ qcPc' = "rechecked"
    /\ UNCHANGED <<storeVars, embedVars, idxVars, edgeVars>>

QcInit ==
    /\ qcPc = "none"
    /\ qcSelf = QualityChecker(NoneStr)
    /\ qcBatch = <<>>
    /\ qcResults = NoResults

----------------------------------------------------------------------------
(* Platform client: the client object and its signout *)

TableauClient == [token |-> NoneStr, site_id |-> NoneStr]

(* signout without the except clause: the failed request leaves the call *)
signout_Propagates(self, requestOk) ==
    IF NotStr(self.token)
    THEN [self |-> self, ret |-> TRUE, raised |-> "none", sent |-> FALSE]
    ELSE IF requestOk
    THEN [self |-> TableauClient, ret |-> TRUE, raised |-> "none", sent |-> TRUE]
    ELSE [self |-> self, ret |-> FALSE, raised |-> "RequestException", sent |-> TRUE]

(* TableauClient.signout: without a token nothing is sent and True returned;
   a request that fails (no connection, or an HTTP error status turned into
   HTTPError by raise_for_status) is a RequestException, which is caught *)
signout(self, requestOk) ==
    IF NotStr(self.token)
    THEN [self |-> self, ret |-> TRUE, raised |-> "none", sent |-> FALSE]
    ELSE IF requestOk
    THEN [self |-> TableauClient, ret |-> TRUE, raised |-> "none", sent |-> TRUE]
    ELSE [self |-> self, ret |-> FALSE, raised |-> "none", sent |-> TRUE]

----------------------------------------------------------------------------
(* Indexer: index_site *)

(* Records as prepare_objects_for_indexing builds them: the site_id is always
   the client's; an object with a blank name has an empty text_blob, a
   blocking failure *)
IdxSample == {RecA, RecB, RecBlank}

NewStats == [workbooks |-> 0, datasources |-> 0, views |-> 0,
             total_processed |-> 0, errors |-> 0]

(* for record in records: if obj_type in stats: stats[obj_type] += 1 *)
RECURSIVE CountByType(_, _)
CountByType(stats, records) ==
    IF records = <<>> THEN stats
    ELSE LET obj_type == Get(Head(records), "object_type", "unknown")
         IN CountByType(IF obj_type \in DOMAIN stats
                        THEN [stats EXCEPT ![obj_type] = @ + 1]
                        ELSE stats,
                        Tail(records))

(* the mutant of GateBlocks: the result of the gate is not looked at *)
GateBlocks_Never(results) == FALSE

(* if not quality_results["overall_quality"]: ... return stats *)
GateBlocks(results) == ~results.overall_quality

(* the client of a run after a signin that succeeded, and the clients a
   signin that returned False may leave *)
SignedInClient == [token |-> "T1", site_id |-> "S1"]
RefusedClients == {TableauClient, [token |-> "T1", site_id |-> NoneStr]}

NoSignout == [attempts |-> 0, raised |-> "none"]

(* the finally clause without its try/except: what signout raises leaves
   index_site *)
Finally_Unguarded(client, requestOk) ==
    [attempts |-> 1, raised |-> signout_Propagates(client, requestOk).raised]

(* finally: try: client.signout() except: pass -- one signout; the bare
   except clause swallows whatever it raised *)
Finally(client, requestOk) ==
    LET r == signout(client, requestOk)
        swallowed == {r.raised}
    IN [attempts |-> 1, raised |-> "none"]

(* index_site returns: the finally clause runs, after `attempts` signouts *)
IndexReturns(attempts, signedIn) ==
    \E requestOk \in BOOLEAN :
    \E client \in IF signedIn THEN {SignedInClient} ELSE RefusedClients :
        LET f == Finally(client, requestOk)
        IN idxSignout' = [attempts |-> attempts + f.attempts, raised |-> f.raised]

(* index_site: create the client, sign in, read the initial record count *)
IndexStart(enable_quality_checks, max_objects) ==
    /\ idxPc \in {"idle", "returned"}
    /\ upPc = "idle"
    /\ idxArgs' = [enable_quality_checks |-> enable_quality_checks,
                   max_objects |-> max_objects]
    /\ idxRecords' = <<>>
    /\ idxGate' = "none"
    /\ idxRowsBefore' = rows
    /\ \E signin \in {"ok", "refused", "raised", "count_raised"} :
       /\ idxSignin' = IF signin = "count_raised" THEN "ok" ELSE signin
       /\ IF signin = "refused"
          THEN /\ idxStats' = NewStats /\ idxPc' = "returned"
               /\ IndexReturns(0, FALSE)
          ELSE IF signin \in {"raised", "count_raised"}
          THEN /\ idxStats' = [NewStats EXCEPT !.errors = 1] /\ idxPc' = "returned"
               /\ IndexReturns(0, signin = "count_raised")
          ELSE idxStats' = NewStats /\ idxPc' = "signed_in" /\ idxSignout' = NoSignout
    /\ upLog' = ClearLog
    /\ UNCHANGED <<rows, upPc, upPending, upTotal, upRet, expected, upAllOk>>
    /\ UNCHANGED <<embedVars, qcVars, edgeVars>>

(* index_site: fetch the metadata, prepare the records, apply max_objects *)
IndexFetch(prepared) ==
    /\ idxPc = "signed_in"
    /\ \E fetchOk \in BOOLEAN :
         IF ~fetchOk
         THEN /\ idxStats' = [idxStats EXCEPT !.errors = @ + 1]
              /\ idxPc' = "returned"
              /\ IndexReturns(idxSignout.attempts, TRUE)
              /\ UNCHANGED idxRecords
         ELSE IF prepared = <<>>
         THEN /\ idxPc' = "returned"
              /\ IndexReturns(idxSignout.attempts, TRUE)
              /\ UNCHANGED <<idxStats, idxRecords>>
         ELSE /\ idxSignout' = idxSignout
              /\ idxRecords' =
                   IF idxArgs.max_objects # 0 /\ Len(prepared) > idxArgs.max_objects
                   THEN SubSeq(prepared, 1, idxArgs.max_objects)
                   ELSE prepared
              /\ idxPc' = "prepared"
              /\ UNCHANGED idxStats
    /\ UNCHANGED <<idxArgs, idxGate, idxSignin, idxRowsBefore>>
    /\ UNCHANGED <<storeVars, embedVars, qcVars, edgeVars>>

(* index_site: the quality checks and the counting of the records by type *)
IndexQuality ==
    /\ idxPc = "prepared"
    /\ LET counted == [CountByType(idxStats, idxRecords)
                         EXCEPT !.total_processed = Len(idxRecords)]
           results == run_all_checks(QualityChecker("S1"), idxRecords).results
       IN IF ~idxArgs.enable_quality_checks
          THEN /\ idxGate' = "skipped" /\ idxStats' = counted /\ idxPc' = "gated"
               /\ idxSignout' = idxSignout
          ELSE \E checksOk \in BOOLEAN :
                 IF ~checksOk
                 THEN /\ idxGate' = "crashed" /\ idxStats' = counted /\ idxPc' = "gated"
                      /\ idxSignout' = idxSignout
                 ELSE /\ idxGate' = IF results.overall_quality THEN "passed" ELSE "blocked"
                      /\ IF GateBlocks(results)
                         THEN /\ idxStats' = [idxStats EXCEPT !.errors = @ + 1]
                              /\ idxPc' = "returned"
                              /\ IndexReturns(idxSignout.attempts, TRUE)
                         ELSE /\ idxStats' = counted /\ idxPc' = "gated"
                              /\ idxSignout' = idxSignout
    /\ UNCHANGED <<idxArgs, idxRecords, idxSignin, idxRowsBefore>>
    /\ UNCHANGED <<storeVars, embedVars, qcVars, edgeVars>>

(* index_site: upsert_records_batch(records), entry and first batch *)
IndexUpsert ==
    /\ idxPc = "gated"
    /\ upPc = "idle"
    /\ BatchIteration(idxRecords, 0, NewLog(idxRecords))
    /\ idxPc' = "upserting"
    /\ UNCHANGED <<idxArgs, idxRecords, idxStats, idxGate, idxSignin, idxSignout,
                   idxRowsBefore>>
    /\ UNCHANGED <<embPc, embRecords, embStats, qcVars, edgeVars>>

(* index_site: a later batch of upsert_records_batch *)
IndexUpsertStep ==
    /\ idxPc = "upserting"
    /\ upPc = "running"
    /\ BatchIteration(upPending, upTotal, upLog)
    /\ UNCHANGED <<embPc, embRecords, embStats, qcVars, idxVars, edgeVars>>

(* index_site: the final record count and embedding statistics, the return *)
IndexFinish ==
    /\ idxPc = "upserting"
    /\ upPc = "idle"
    /\ \E countOk \in BOOLEAN :
         idxStats' = IF countOk THEN idxStats ELSE [idxStats EXCEPT !.errors = @ + 1]
    /\ idxPc' = "returned"
    /\ IndexReturns(idxSignout.attempts, TRUE)
    /\ UNCHANGED <<idxArgs, idxRecords, idxGate, idxSignin, idxRowsBefore>>
    /\ UNCHANGED <<storeVars, embedVars, qcVars, edgeVars>>

IdxInit ==
    /\ idxPc = "idle"
    /\ idxArgs = [enable_quality_checks |-> TRUE, max_objects |-> 0]
    /\ idxRecords = <<>>
    /\ idxStats = NewStats
    /\ idxGate = "none"
    /\ idxSignin = "none"
    /\ idxSignout = NoSignout
    /\ idxRowsBefore = {}

----------------------------------------------------------------------------
(* Platform client: TableauClient, EnhancedTableauClient *)

(* page size of the list calls, scaled down from the code's 100 *)
ListPageSize == 2

(* How the platform answers a signin request: "unreachable" is a
   RequestException (no connection, or an HTTP error status); "not_xml" a body
   that does not parse; "api_error" a body with an error element; the others a
   parsed body with or without credentials, token, site element and site id. *)
SigninResponses ==
    {"unreachable", "not_xml", "api_error", "no_credentials", "no_token",
     "no_site", "no_site_id", "ok"}

NotAuthenticated == "ValueError: Not authenticated. Call signin() first."
NoSiteId == "ValueError: No site ID available"

(* TableauClient.signin: the fields after the call, the returned value and the
   exception that left the call, if any.  self.token is assigned before the
   site element is looked at, self.site_id before it is tested. *)
signin(self, response) ==
    CASE response = "unreachable" -> [self |-> self, ret |-> FALSE, raised |-> "none"]
      [] response = "not_xml" -> [self |-> self, ret |-> FALSE, raised |-> "ParseError"]
      [] response = "api_error" -> [self |-> self, ret |-> FALSE, raised |-> "Exception"]
      [] response = "no_credentials" -> [self |-> self, ret |-> FALSE, raised |-> "none"]
      [] response = "no_token" ->
            [self |-> [self EXCEPT !.token = NoneStr], ret |-> FALSE, raised |-> "none"]
      [] response = "no_site" ->
            [self |-> [self EXCEPT !.token = "T1"], ret |-> FALSE, raised |-> "none"]
      [] response = "no_site_id" ->
            [self |-> [token |-> "T1", site_id |-> NoneStr], ret |-> FALSE, raised |-> "none"]
      [] response = "ok" ->
            [self |-> [token |-> "T1", site_id |-> "S1"], ret |-> TRUE, raised |-> "none"]

(* the calls that send one request *)
SingleCalls == {"list_views_for_workbook", "get_workbook_details",
                "list_projects", "list_workbooks_by_project"}
(* of these, the calls that answer a failed request with an empty list *)
LenientCalls == {"list_projects", "list_workbooks_by_project"}
(* the calls that read a collection page by page *)
PagedCalls == {"list_workbooks", "list_views", "list_datasources"}
DataCalls == SingleCalls \cup PagedCalls \cup {"fetch_comprehensive_metadata"}

(* the record of the last client call: whether a signin had succeeded before
   it, what it returned ("True", "False", or "-" for a list or nothing), the
   exception that left it, and whether it sent a request *)
CallRet(op, ret, raised, sent) ==
    [op |-> op, authenticated |-> cliAuth, ret |-> ret, raised |-> raised,
     sent |-> sent]

Call(op, raised, sent) == CallRet(op, "-", raised, sent)

Bool(b) == IF b THEN "True" ELSE "False"

(* the metadata dictionary before anything is fetched *)
EmptyMetadata == [workbooks |-> <<>>, datasources |-> <<>>, views |-> <<>>]

(* no fetch_comprehensive_metadata has returned since the last other call *)
NoFetch ==
    [object_types |-> {}, listsOk |-> TRUE, viewsFailed |-> {},
     metadata |-> EmptyMetadata]

NoCall ==
    [op |-> "none", authenticated |-> FALSE, ret |-> "-", raised |-> "none",
     sent |-> FALSE]

(* a client call needs the client at rest: no list call in progress *)
ClientIdle == pgPc \in {"idle", "done"}

Signin ==
    /\ ClientIdle
    /\ \E response \in SigninResponses :
         LET r == signin(cliSelf, response)
         IN /\ cliSelf' = r.self
            /\ cliAuth' = (cliAuth \/ r.ret)
            /\ cliCall' = CallRet("signin",
                                   IF r.raised = "none" THEN Bool(r.ret) ELSE "-",
                                   r.raised, TRUE)
            /\ cliMeta' = NoFetch
    /\ UNCHANGED <<storeVars, embedVars, qcVars, idxVars, pgVars, srchVars, toolVars>>

Signout ==
    /\ ClientIdle
    /\ \E requestOk \in BOOLEAN :
         LET r == signout(cliSelf, requestOk)
         IN /\ cliSelf' = r.self
            /\ cliAuth' = (cliAuth /\ ~(r.ret /\ r.sent))
            /\ cliCall' = CallRet("signout",
                                   IF r.raised = "none" THEN Bool(r.ret) ELSE "-",
                                   r.raised, r.sent)
            /\ cliMeta' = NoFetch
    /\ UNCHANGED <<storeVars, embedVars, qcVars, idxVars, pgVars, srchVars, toolVars>>

(* list_views_for_workbook, get_workbook_details, list_projects,
   list_workbooks_by_project: the token check, then one request *)
SingleCall(op) ==
    /\ ClientIdle
    /\ IF NotStr(cliSelf.token)
       THEN cliCall' = Call(op, NotAuthenticated, FALSE)
       ELSE \E requestOk \in BOOLEAN :
              cliCall' = Call(op, IF requestOk \/ op \in LenientCalls
                                  THEN "none" ELSE "RequestException", TRUE)
    /\ cliMeta' = NoFetch
    /\ UNCHANGED <<cliSelf, cliAuth>>
    /\ UNCHANGED <<storeVars, embedVars, qcVars, idxVars, pgVars, srchVars, toolVars>>

CliInit ==
    /\ cliSelf = TableauClient
    /\ cliAuth = FALSE
    /\ cliCall = NoCall
    /\ cliMeta = NoFetch

(* fetch_comprehensive_metadata(object_types); None stands for all types.
   The site id is tested first; list_workbooks and list_datasources test the
   token; the views are read workbook by workbook, every failure skipped. *)
ObjectTypes == {"workbooks", "datasources", "views"}

(* what the platform lists: the workbooks 1..N, workbook i with i views and
   in project "P1"; one datasource *)
ServerWorkbooks ==
    [i \in 1..MaxWorkbooks |-> [id |-> i, name |-> <<"wb", i>>, project |-> "P1"]]
ServerDatasources == <<[id |-> "d1"]>>
ServerViews(workbook_id) ==
    [j \in 1..workbook_id |-> [id |-> <<workbook_id, j>>]]

(* the mutant of Stamp: every view is stamped with the first listed workbook *)
Stamp_FirstWorkbook(views, workbook) ==
    [j \in 1..Len(views) |->
        [id |-> views[j].id,
         workbook |-> [name |-> ServerWorkbooks[1].name,
                       projectName |-> ServerWorkbooks[1].project]]]

(* view["workbook"] = {"name": ..., "projectName": ...} *)
Stamp(views, workbook) ==
    [j \in 1..Len(views) |->
        [id |-> views[j].id,
         workbook |-> [name |-> workbook.name, projectName |-> workbook.project]]]

(* the views loop with the inner except clause removed: the first workbook
   whose views cannot be fetched ends the collection *)
RECURSIVE ViewsOfWorkbooks_StopAtFailure(_, _)
ViewsOfWorkbooks_StopAtFailure(workbooks, viewsFailed) ==
    IF workbooks = <<>> \/ Head(workbooks).id \in viewsFailed THEN <<>>
    ELSE Stamp(ServerViews(Head(workbooks).id), Head(workbooks))
         \o ViewsOfWorkbooks_StopAtFailure(Tail(workbooks), viewsFailed)

(* for workbook in metadata["workbooks"]: the views of each workbook, each
   stamped with the workbook's name and project; a workbook whose
   list_views_for_workbook raises (viewsFailed) contributes nothing *)
RECURSIVE ViewsOfWorkbooks(_, _)
ViewsOfWorkbooks(workbooks, viewsFailed) ==
    IF workbooks = <<>> THEN <<>>
    ELSE LET workbook == Head(workbooks)
             views == IF workbook.id \in viewsFailed THEN <<>>
                      ELSE ServerViews(workbook.id)
         IN Stamp(views, workbook)
            \o ViewsOfWorkbooks(Tail(workbooks), viewsFailed)

fetch_comprehensive_metadata(self, object_types, listsOk, viewsFailed) ==
    LET lists == object_types \cap {"workbooks", "datasources"}
        refuse(e) == [raised |-> e, sent |-> FALSE, metadata |-> EmptyMetadata]
        workbooks == IF "workbooks" \in object_types THEN ServerWorkbooks ELSE <<>>
        metadata ==
            [workbooks |-> workbooks,
             datasources |-> IF "datasources" \in object_types
                             THEN ServerDatasources ELSE <<>>,
             views |-> IF "views" \in object_types
                       THEN ViewsOfWorkbooks(workbooks, viewsFailed) ELSE <<>>]
    IN IF NotStr(self.site_id) THEN refuse(NoSiteId)
       ELSE IF lists = {} THEN [raised |-> "none", sent |-> FALSE, metadata |-> metadata]
       ELSE IF NotStr(self.token) THEN refuse(NotAuthenticated)
       ELSE IF listsOk THEN [raised |-> "none", sent |-> TRUE, metadata |-> metadata]
       ELSE [raised |-> "RequestException", sent |-> TRUE, metadata |-> EmptyMetadata]

(* the failures of the views requests are drawn only where they make a
   difference: when the lists succeeded and views of listed workbooks are read *)
FetchMetadata(object_types) ==
    /\ ClientIdle
    /\ \E listsOk \in BOOLEAN :
       \E viewsFailed \in IF /\ listsOk
                             /\ {"workbooks", "views"} \subseteq object_types
                             /\ ~NotStr(cliSelf.site_id)
                             /\ ~NotStr(cliSelf.token)
                          THEN SUBSET (1..MaxWorkbooks) ELSE {{}} :
         LET r == fetch_comprehensive_metadata(cliSelf, object_types, listsOk,
                                               viewsFailed)
         IN /\ cliCall' = Call("fetch_comprehensive_metadata", r.raised, r.sent)
            /\ cliMeta' = [object_types |-> object_types, listsOk |-> listsOk,
                           viewsFailed |-> viewsFailed, metadata |-> r.metadata]
    /\ UNCHANGED <<cliSelf, cliAuth>>
    /\ UNCHANGED <<storeVars, embedVars, qcVars, idxVars, pgVars, srchVars, toolVars>>

----------------------------------------------------------------------------
(* Page loops: PaginationHelper.paginate_requests and the list calls *)

(* the items of one page of a collection of n items, numbered in server order *)
ServerPage(n, page, page_size) ==
    LET first == (page - 1) * page_size
        k == IF n - first < 0 THEN 0 ELSE Min(page_size, n - first)
    IN [i \in 1..k |-> first + i]

(* the mutant of LastPage: a full page is taken for the last one too *)
LastPage_OrFull(results, page_size) == Len(results) <= page_size

(* if len(results) < page_size: break *)
LastPage(results, page_size) == Len(results) < page_size

PgArgs(op, n, page_size, max_pages) ==
    [op |-> op, n |-> n, page_size |-> page_size, max_pages |-> max_pages]

(* how a loop went: a fetch failed or none did, and what the loop raised *)
PgOutcome(failed, raised) == [failed |-> failed, raised |-> raised]

(* one iteration of a page loop: the request of page `page`, with `all`
   collected and `requests` issued so far.  paginate_requests stops on an empty
   page, on a short page, at the page cap, and on any exception, which it
   swallows; a list call stops on a short page and raises on a failed request. *)
PageIteration(args, page, all, requests) ==
    \E fetchOk \in BOOLEAN :
      LET results == ServerPage(args.n, page, args.page_size)
          helper == args.op = "paginate_requests"
          stop == \/ ~fetchOk
                  \/ helper /\ results = <<>>
                  \/ LastPage(results, args.page_size)
                  \/ helper /\ args.max_pages # 0 /\ page >= args.max_pages
      IN /\ pgArgs' = args
         /\ pgRequests' = requests + 1
         /\ pgClean' = (args.max_pages = 0 /\ fetchOk /\ (page = 1 \/ pgClean))
         /\ pgAll' = IF fetchOk THEN all \o results
                     ELSE IF helper THEN all ELSE <<>>
         /\ pgPage' = IF stop THEN page ELSE page + 1
         /\ pgPc' = IF stop THEN "done" ELSE "fetching"
         /\ pgOutcome' = PgOutcome(~fetchOk, IF fetchOk \/ helper THEN "none"
                                             ELSE "RequestException")
         /\ IF helper THEN UNCHANGED cliCall
            ELSE cliCall' = Call(args.op,
                                 IF fetchOk THEN "none" ELSE "RequestException", TRUE)

(* PaginationHelper(page_size, max_pages).paginate_requests(fetch_func) over a
   collection of n items: entry and first page; max_pages 0 stands for None *)
PaginateRequests(n, page_size, max_pages) ==
    /\ ClientIdle
    /\ PageIteration(PgArgs("paginate_requests", n, page_size, max_pages), 1, <<>>, 0)
    /\ cliMeta' = NoFetch
    /\ UNCHANGED <<cliSelf, cliAuth>>
    /\ UNCHANGED <<storeVars, embedVars, qcVars, idxVars, srchVars, toolVars>>

(* list_workbooks, list_views, list_datasources over a collection of n items:
   the token check, then the first page *)
PagedCall(op, n) ==
    /\ ClientIdle
    /\ IF NotStr(cliSelf.token)
       THEN /\ cliCall' = Call(op, NotAuthenticated, FALSE)
            /\ UNCHANGED pgVars
       ELSE PageIteration(PgArgs(op, n, ListPageSize, 0), 1, <<>>, 0)
    /\ cliMeta' = NoFetch
    /\ UNCHANGED <<cliSelf, cliAuth>>
    /\ UNCHANGED <<storeVars, embedVars, qcVars, idxVars, srchVars, toolVars>>

(* a later page of the running loop *)
PageFetch ==
    /\ pgPc = "fetching"
    /\ PageIteration(pgArgs, pgPage, pgAll, pgRequests)
    /\ cliMeta' = NoFetch
    /\ UNCHANGED <<cliSelf, cliAuth>>
    /\ UNCHANGED <<storeVars, embedVars, qcVars, idxVars, srchVars, toolVars>>

PgInit ==
    /\ pgPc = "idle"
    /\ pgArgs = PgArgs("none", 0, 1, 0)
    /\ pgPage = 1
    /\ pgAll = <<>>
    /\ pgRequests = 0
    /\ pgClean = FALSE
    /\ pgOutcome = PgOutcome(FALSE, "none")

----------------------------------------------------------------------------
(* Normalizer: to_text_blob and the record builders of normalize.py,
   prepare_objects_for_indexing and _create_text_blob of the enhanced client *)

(* A raw payload gives, for each attribute, its value, None, or nothing; for
   project and owner the value is the name inside the nested object. *)
Absent == "<absent>"

(* payload.get(field, default) *)
PGet(payload, field, default) ==
    IF payload[field] = Absent THEN default ELSE payload[field]

(* v or "" *)
OrEmpty(v) == IF v = NoneStr THEN "" ELSE v

(* f"{v}" *)
Format(v) == IF v = NoneStr THEN "None" ELSE v

IsSpace(c) == c \in {" ", "\n", "\t"}

RECURSIVE LStrip(_)
LStrip(s) ==
    IF s # "" /\ IsSpace(SubSeq(s, 1, 1)) THEN LStrip(SubSeq(s, 2, Len(s))) ELSE s

RECURSIVE RStrip(_)
RStrip(s) ==
    IF s # "" /\ IsSpace(SubSeq(s, Len(s), Len(s)))
    THEN RStrip(SubSeq(s, 1, Len(s) - 1)) ELSE s

(* s.strip() *)
Strip(s) == RStrip(LStrip(s))

(* re.sub(r"\s+", " ", s) *)
RECURSIVE Collapse(_)
Collapse(s) ==
    IF s = "" THEN ""
    ELSE IF IsSpace(SubSeq(s, 1, 1)) THEN " " \o Collapse(LStrip(s))
    ELSE SubSeq(s, 1, 1) \o Collapse(SubSeq(s, 2, Len(s)))

LowerChar(c) ==
    CASE c = "S" -> "s" [] c = "F" -> "f" [] c = "K" -> "k" [] c = "A" -> "a"
      [] c = "N" -> "n" [] OTHER -> c

(* s.lower(), for the letters of the sample payloads *)
RECURSIVE Lower(_)
Lower(s) ==
    IF s = "" THEN "" ELSE LowerChar(SubSeq(s, 1, 1)) \o Lower(SubSeq(s, 2, Len(s)))

(* sep.join(parts) *)
RECURSIVE Join(_, _)
Join(sep, parts) ==
    IF parts = <<>> THEN ""
    ELSE IF Len(parts) = 1 THEN parts[1]
    ELSE parts[1] \o sep \o Join(sep, Tail(parts))

(* " \n ".join([p.strip() for p in parts if p]), whitespace runs collapsed,
   lowercased; the result itself is not stripped *)
BlobOf(parts) ==
    LET Truthy(p) == p # ""
        kept == SelectSeq(parts, Truthy)
    IN Lower(Collapse(Join(" \n ", [i \in 1..Len(kept) |-> Strip(kept[i])])))

_create_text_blob(title, description, tags, fields, project, owner) ==
    BlobOf(<<OrEmpty(title), OrEmpty(description),
             Join(" ", OrEmptyList(tags)), Join(" ", OrEmptyList(fields)),
             OrEmpty(project), OrEmpty(owner)>>)

to_text_blob(title, desc, tags, fields, project, owner, additional_text) ==
    BlobOf(<<OrEmpty(title), OrEmpty(desc),
             Join(" ", OrEmptyList(tags)), Join(" ", OrEmptyList(fields)),
             OrEmpty(project), OrEmpty(owner), OrEmpty(additional_text)>>)

NormRecord(site_id, object_type, p, title, desc, project, owner, text_blob) ==
    [site_id |-> site_id, object_type |-> object_type,
     object_id |-> PGet(p, "id", ""), title |-> title, description |-> desc,
     tags |-> OrEmptyList(p.tags), fields |-> <<>>, project_name |-> project,
     owner |-> owner, url |-> PGet(p, "contentUrl", ""), text_blob |-> text_blob]

(* the builders of normalize.py: name and projectName with .get(key, ""),
   description with "or", the owner's name out of (owner or {}) *)
BuiltRecord(site_id, object_type, p, additional_text) ==
    LET title == PGet(p, "name", "")
        desc == OrEmpty(PGet(p, "description", NoneStr))
        project == PGet(p, "project", "")
        owner == IF p.owner \in {Absent, NoneStr} THEN "" ELSE p.owner
    IN NormRecord(site_id, object_type, p, title, desc, project, owner,
                  to_text_blob(title, desc, p.tags, <<>>, project, owner,
                               additional_text))

build_workbook_record(site_id, workbook) ==
    BuiltRecord(site_id, "workbook", workbook,
                "workbook " \o Format(PGet(workbook, "name", "")))

build_datasource_record(site_id, datasource) ==
    BuiltRecord(site_id, "datasource", datasource,
                "datasource " \o Format(PGet(datasource, "name", ""))
                    \o " with 0 fields")

build_view_record(site_id, view) ==
    BuiltRecord(site_id, "view", view,
                "view " \o Format(PGet(view, "name", ""))
                    \o " in workbook  type ")

(* one object of prepare_objects_for_indexing: name and description with
   .get(key, ""); project and owner are None unless the nested object is there *)
prepare_objects_for_indexing(site_id, object_type, p) ==
    LET title == PGet(p, "name", "")
        desc == PGet(p, "description", "")
        project == IF p.project \in {Absent, NoneStr} THEN NoneStr ELSE p.project
        owner == IF p.owner \in {Absent, NoneStr} THEN NoneStr ELSE p.owner
    IN NormRecord(site_id, object_type, p, title, desc, project, owner,
                  _create_text_blob(title, desc, p.tags, <<>>, project, owner))

(* the raw payloads *)
Payloads ==
    [id : {"w1"}, contentUrl : {Absent},
     name : {Absent, NoneStr, "", " ", "Sales"},
     description : {Absent, NoneStr, " ", "weekly KPI"},
     tags : {NoneSeq, <<"kpi">>},
     project : {Absent, NoneStr, "Finance"},
     owner : {Absent, "Ann"}]

Builders ==
    {"build_workbook_record", "build_datasource_record", "build_view_record",
     "prepare_workbook", "prepare_datasource", "prepare_view"}

Normalized(builder, p) ==
    CASE builder = "build_workbook_record" -> build_workbook_record("S1", p)
      [] builder = "build_datasource_record" -> build_datasource_record("S1", p)
      [] builder = "build_view_record" -> build_view_record("S1", p)
      [] builder = "prepare_workbook" -> prepare_objects_for_indexing("S1", "workbook", p)
      [] builder = "prepare_datasource" ->
            prepare_objects_for_indexing("S1", "datasource", p)
      [] builder = "prepare_view" -> prepare_objects_for_indexing("S1", "view", p)

NoRecord == [builder |-> "none"]

(* a payload is normalized; each behaviour normalizes one *)
Normalize(builder, p) ==
    /\ nzOut = NoRecord
    /\ nzOut' = [builder |-> builder, payload |-> p, record |-> Normalized(builder, p)]
    /\ UNCHANGED rlVars
    /\ UNCHANGED <<storeVars, embedVars, qcVars, idxVars, cliVars, pgVars, srchVars>>

NzInit == nzOut = NoRecord

----------------------------------------------------------------------------
(* Rate limiter: RateLimiter.wait_if_needed, make_request *)

(* the length of the window in ticks, scaled down from the code's minute *)
RateWindow == 3

RateLimiter(max_requests_per_minute) ==
    [max_requests_per_minute |-> max_requests_per_minute, requests |-> <<>>]

(* wait_if_needed at time now: the limiter and the time after it.  Requests
   older than the window are dropped; at the limit the call sleeps until the
   oldest is one window old, and then empties the list. *)
wait_if_needed(self, now) ==
    LET Recent(req_time) == req_time > now - RateWindow
        requests == SelectSeq(self.requests, Recent)
        sleep_time == RateWindow - (now - requests[1])
    IN IF Len(requests) >= self.max_requests_per_minute /\ sleep_time > 0
       THEN [self |-> [self EXCEPT !.requests = <<>>], now |-> now + sleep_time]
       ELSE [self |-> [self EXCEPT !.requests = requests], now |-> now]

(* make_request at time now: the wait, then the request, which is recorded
   when it has returned a response and not when it raised *)
make_request(self, now, requestOk) ==
    LET w == wait_if_needed(self, now)
    IN [self |-> IF requestOk
                 THEN [w.self EXCEPT !.requests = Append(@, w.now)]
                 ELSE w.self,
        now |-> w.now,
        issued |-> w.now]

(* time passes *)
Tick ==
    /\ rlNow < MaxTime
    /\ rlNow' = rlNow + 1
    /\ UNCHANGED <<rlSelf, rlIssued, nzOut>>
    /\ UNCHANGED <<storeVars, embedVars, qcVars, idxVars, cliVars, pgVars, srchVars>>

MakeRequest ==
    /\ Len(rlIssued) < MaxIssued
    /\ \E requestOk \in BOOLEAN :
         LET r == make_request(rlSelf, rlNow, requestOk)
         IN /\ r.now <= MaxTime
            /\ rlSelf' = r.self
            /\ rlNow' = r.now
            /\ rlIssued' = Append(rlIssued, r.issued)
    /\ UNCHANGED nzOut
    /\ UNCHANGED <<storeVars, embedVars, qcVars, idxVars, cliVars, pgVars, srchVars>>

(* RateLimiter(max_requests_per_minute): a new limiter replaces the old one *)
RlNew(max_requests_per_minute) ==
    /\ rlSelf' = RateLimiter(max_requests_per_minute)
    /\ rlIssued' = <<>>
    /\ UNCHANGED <<rlNow, nzOut>>
    /\ UNCHANGED <<storeVars, embedVars, qcVars, idxVars, cliVars, pgVars, srchVars>>

RlInit ==
    /\ rlSelf = RateLimiter(1)
    /\ rlNow = 0
    /\ rlIssued = <<>>

----------------------------------------------------------------------------
(* Search: SemanticSearch.search, _vector_search, _text_search *)

(* 1 - (embedding <=> query_embedding): the cosine of the angle between two
   directions, in hundredths *)
Similarity(a, b) ==
    LET d == (a - b + 6) % 6
    IN CASE d = 0 -> 100 [] d \in {1, 5} -> 50 [] d \in {2, 4} -> -50 [] d = 3 -> -100

(* ts_rank of a text with one matching word, in hundredths *)
RankUnit == 6

Words(text) == {text[i] : i \in 1..Len(text)}

(* to_tsvector(text_blob) @@ plainto_tsquery(query): every word of the query
   is a word of the text *)
TextMatches(text, query) == query # <<>> /\ Words(query) \subseteq Words(text)

(* ts_rank: grows with the number of matching words of the text *)
TsRank(text, query) ==
    RankUnit * Cardinality({i \in 1..Len(text) : text[i] \in Words(query)})

(* ORDER BY score DESC LIMIT k over the rows of S: the lists the query may
   return, rows of equal score in any order *)
Ranked(S, Score(_), k) ==
    LET n == Min(k, Cardinality(S))
    IN {s \in [1..n -> S] :
          /\ \A i, j \in 1..n : i < j => s[i] # s[j] /\ Score(s[i]) >= Score(s[j])
          /\ \A r \in S : (\A i \in 1..n : s[i] # r) =>
                             \A i \in 1..n : Score(s[i]) >= Score(r)}

Result(r, score) ==
    [id |-> r.id, object_type |-> r.object_type, project_name |-> r.project_name,
     similarity_score |-> score]

(* the mutant of PassesThreshold: no row is filtered *)
PassesThreshold_Always(similarity, threshold) == TRUE

(* if similarity >= threshold *)
PassesThreshold(similarity, threshold) == similarity >= threshold

(* _vector_search: the lists it may return; a failed query returns [] *)
_vector_search(rs, query_embedding, limit, threshold, queryOk) ==
    LET Score(r) == Similarity(r.embedding[1], query_embedding)
        kept(s) == SelectSeq([i \in 1..Len(s) |-> Result(s[i], Score(s[i]))],
                             LAMBDA x : PassesThreshold(x.similarity_score, threshold))
    IN IF ~queryOk THEN {<<>>}
       ELSE {kept(s) : s \in Ranked({r \in rs : r.embedding # NULL}, Score, limit)}

(* _text_search: the lists it may return; a failed query returns [] *)
_text_search(rs, query, limit, queryOk) ==
    LET Score(r) == TsRank(r.text_blob, query)
    IN IF ~queryOk THEN {<<>>}
       ELSE {[i \in 1..Len(s) |-> Result(s[i], Score(s[i]))] :
               s \in Ranked({r \in rs : TextMatches(r.text_blob, query)}, Score, limit)}

(* the mutant of NeedsFallback: the vector results are final *)
NeedsFallback_Never(results) == FALSE

(* if not results: results = self._text_search(query, limit) *)
NeedsFallback(results) == results = <<>>

Queries == {<<>>, <<"sales">>, <<"finance">>}
(* similarity_threshold: the default 0.3, and 0.9 *)
Thresholds == {30, 90}
(* what may fail during one search: loading the model or encoding the query,
   the vector query, the text query *)
SearchFailures == {{}, {"model"}, {"vector"}, {"text"}}

SearchCall(query, limit, threshold, results, path) ==
    [query |-> query, limit |-> limit, threshold |-> threshold,
     results |-> results, path |-> path]

NoSearch == SearchCall(<<>>, 0, 0, <<>>, "none")

(* search(query, limit, similarity_threshold): the answers it may give.  A
   blank query returns []; a failure to load the model or to encode the query
   goes to the text search; so does an empty list from the vector search. *)
search(rs, query, limit, threshold, failed) ==
    LET text == {SearchCall(query, limit, threshold, t,
                            IF "text" \in failed THEN "text_failed" ELSE "text") :
                   t \in _text_search(rs, query, limit, "text" \notin failed)}
        vector == _vector_search(rs, Encode(query), limit, threshold,
                                 "vector" \notin failed)
    IN IF query = <<>>
       THEN {SearchCall(query, limit, threshold, <<>>, "blank")}
       ELSE IF "model" \in failed THEN text
       ELSE UNION {IF NeedsFallback(v) THEN text
                   ELSE {SearchCall(query, limit, threshold, v, "vector")} :
                     v \in vector}

(* similarity_threshold when search is called without it: 0.3 *)
DefaultThreshold == 30

(* s in t, for strings *)
Contains(t, s) ==
    \E i \in 1..(Len(t) - Len(s) + 1) : SubSeq(t, i, i + Len(s) - 1) = s

(* the mutant of Truncate: the filtered list is returned whole *)
Truncate_Whole(results, limit) == results

(* filtered_results[:limit] *)
Truncate(results, limit) == SubSeq(results, 1, Min(limit, Len(results)))

FilterCall(op, arg, limit, base, raised, results) ==
    [op |-> op, arg |-> arg, limit |-> limit, base |-> base, raised |-> raised,
     results |-> results]

NoFilter == FilterCall("none", "", 0, <<>>, "none", <<>>)

(* search_by_type on the list its search returned *)
search_by_type(all_results, object_type, limit) ==
    LET Keep(r) == r.object_type = object_type
    IN Truncate(SelectSeq(all_results, Keep), limit)

(* search_by_project on the list its search returned: r.get("project_name", "")
   is None for a row whose column is null, and None.lower() raises *)
search_by_project(all_results, project_name, limit) ==
    LET Keep(r) == Contains(Lower(r.project_name), Lower(project_name))
    IN IF \E i \in 1..Len(all_results) : all_results[i].project_name = NoneStr
       THEN [raised |-> "AttributeError", results |-> <<>>]
       ELSE [raised |-> "none",
             results |-> Truncate(SelectSeq(all_results, Keep), limit)]

ObjectTypeArgs == {"workbook", "view", "Workbook"}
ProjectArgs == {"Fin", "nance", "ops"}

Search(query, limit, threshold) ==
    /\ \E failed \in SearchFailures :
         srchCall' \in search(rows, query, limit, threshold, failed)
    /\ srchFilter' = NoFilter
    /\ UNCHANGED <<storeVars, embedVars, qcVars, idxVars, cliVars, pgVars, toolVars>>

(* search_by_type(query, object_type, limit): search(query, limit * 2), then
   the filter *)
SearchByType(query, object_type, limit) ==
    /\ \E failed \in SearchFailures :
       \E call \in search(rows, query, limit * 2, DefaultThreshold, failed) :
         /\ srchCall' = call
         /\ srchFilter' = FilterCall("search_by_type", object_type, limit,
                                     call.results, "none",
                                     search_by_type(call.results, object_type, limit))
    /\ UNCHANGED <<storeVars, embedVars, qcVars, idxVars, cliVars, pgVars, toolVars>>

(* search_by_project(query, project_name, limit) *)
SearchByProject(query, project_name, limit) ==
    /\ \E failed \in SearchFailures :
       \E call \in search(rows, query, limit * 2, DefaultThreshold, failed) :
         LET r == search_by_project(call.results, project_name, limit)
         IN /\ srchCall' = call
            /\ srchFilter' = FilterCall("search_by_project", project_name, limit,
                                        call.results, r.raised, r.results)
    /\ UNCHANGED <<storeVars, embedVars, qcVars, idxVars, cliVars, pgVars, toolVars>>

SrchInit == srchCall = NoSearch /\ srchFilter = NoFilter

----------------------------------------------------------------------------
(* The store with its two writers, an indexer's upserts and the embedding
   generator, as independent processes over the same table *)

StoreInit ==
    /\ rows = {}
    /\ upPc = "idle"
    /\ upPending = <<>>
    /\ upTotal = 0
    /\ upRet = NoReturn
    /\ expected = {}
    /\ upAllOk = TRUE

EmbedInit ==
    /\ embPc = "idle"
    /\ embRecords = {}
    /\ embStats = NoStats
    /\ embClean = FALSE

RestInit == QcInit /\ IdxInit /\ CliInit /\ PgInit /\ SrchInit /\ RlInit /\ NzInit

Logging == upLog = NoLog
NotLogging == upLog = LogOff

InitStore == StoreInit /\ NotLogging /\ EmbedInit /\ RestInit
InitBatch == StoreInit /\ Logging /\ EmbedInit /\ RestInit

(* the upsert engine alone *)
NextUpsert ==
    \/ \E records \in SeqsUpTo(SampleRecords, MaxRecords) : UpsertRecordsCall(records)
    \/ \E records \in SeqsUpTo(SampleRecords, MaxRecords) : UpsertBatchCall(records)
    \/ UpsertBatchStep

SpecUpsert == InitStore /\ [][NextUpsert]_vars

(* upsert_records_batch calls, one after the other, with their history *)
NextBatch ==
    \/ \E records \in SeqsUpTo(SampleRecords, MaxRecords) : UpsertBatchCall(records)
    \/ UpsertBatchStep

SpecBatch == InitBatch /\ [][NextBatch]_vars

(* upserts interleaved with embedding runs *)
NextStore ==
    \/ \E records \in SeqsUpTo(SampleRecords, MaxRecords) : UpsertBatchCall(records)
    \/ UpsertBatchStep
    \/ \E limit \in 0..MaxLimit : EmbedStart(limit)
    \/ EmbedBatch

SpecStore == InitStore /\ [][NextStore]_vars

(* a quality checker fed with batches of records *)
InitQuality == StoreInit /\ Logging /\ EmbedInit /\ RestInit

NextQuality ==
    \/ \E site_id \in Sites : QcNew(site_id)
    \/ \E records \in SeqsUpTo(QcRecords, MaxQcBatch) : QcRunAllChecks(records)
    \/ \E records \in SeqsUpTo(QcRecords, MaxQcAgain) : QcRunAgain(records)

SpecQuality == InitQuality /\ [][NextQuality]_vars

(* index_site runs, one after the other, over the same table *)
InitIndex == StoreInit /\ Logging /\ EmbedInit /\ RestInit

NextIndex ==
    \/ \E enable \in BOOLEAN, max_objects \in 0..MaxObjects : IndexStart(enable, max_objects)
    \/ \E prepared \in SeqsUpTo(IdxSample, MaxIdxRecords) : IndexFetch(prepared)
    \/ IndexQuality
    \/ IndexUpsert
    \/ IndexUpsertStep
    \/ IndexFinish

SpecIndex == InitIndex /\ [][NextIndex]_vars

(* one platform client and one pagination helper, used from one thread; a page
   loop that has started goes on to its next request *)
InitClient == StoreInit /\ Logging /\ EmbedInit /\ RestInit

NextClient ==
    \/ Signin
    \/ Signout
    \/ \E op \in SingleCalls : SingleCall(op)
    \/ \E op \in PagedCalls, n \in 0..MaxItems : PagedCall(op, n)
    \/ \E object_types \in SUBSET ObjectTypes \ {{}} : FetchMetadata(object_types)
    \/ \E n \in 0..MaxItems, page_size \in 1..MaxPageSize, max_pages \in 0..MaxPages :
          PaginateRequests(n, page_size, max_pages)
    \/ PageFetch

SpecClient == InitClient /\ [][NextClient]_vars /\ WF_vars(PageFetch)

(* one rate limiter on which requests are made as time passes *)
InitLimiter == StoreInit /\ Logging /\ EmbedInit /\ RestInit

NextLimiter ==
    \/ \E max_requests_per_minute \in 1..MaxRate : RlNew(max_requests_per_minute)
    \/ Tick
    \/ MakeRequest

SpecLimiter == InitLimiter /\ [][NextLimiter]_vars

(* payloads handed to the record builders *)
InitNormalizer == StoreInit /\ Logging /\ EmbedInit /\ RestInit

NextNormalizer == \E builder \in Builders, p \in Payloads : Normalize(builder, p)

SpecNormalizer == InitNormalizer /\ [][NextNormalizer]_vars

(* searches over a table that single-record upserts and embedding runs fill *)
InitSearch == StoreInit /\ NotLogging /\ EmbedInit /\ RestInit

NextSearch ==
    \/ \E record \in SampleRecords : UpsertBatchCall(<<record>>)
    \/ EmbedStart(0)
    \/ EmbedBatch
    \/ \E query \in Queries, limit \in 1..MaxSearchLimit, threshold \in Thresholds :
          Search(query, limit, threshold)

SpecSearch == InitSearch /\ [][NextSearch]_vars

(* the tables an indexer and embedding runs leave to a search process: the
   records of an upsert into the empty table, some of the rows embedded *)
RecC == [RecB EXCEPT !.object_id = "v2", !.title = "Budget KPI",
                      !.text_blob = <<"budget", "kpi", "finance">>]

FilledTables ==
    UNION {{{IF r.id \in ids
             THEN [r EXCEPT !.embedding = <<Encode(r.text_blob)>>] ELSE r : r \in t} :
               ids \in SUBSET {r.id : r \in t}} :
             t \in {upsert_records({}, records, [i \in 1..Len(records) |-> "ok"]).rows :
                      records \in SeqsUpTo(SampleRecords \cup {RecC}, MaxRecords)}}

(* a filtered search of a search process over a table filled before it
   started; a search changes nothing, so each behaviour makes one; no history
   of the upserts is kept *)
InitFilter ==
    /\ rows \in FilledTables
    /\ upPc = "idle" /\ upPending = <<>> /\ upTotal = 0 /\ upRet = NoReturn
    /\ expected = {} /\ upAllOk = FALSE
    /\ NotLogging /\ EmbedInit /\ RestInit

NextFilter ==
    \/ \E query \in Queries, object_type \in ObjectTypeArgs, limit \in 1..MaxSearchLimit :
          srchFilter = NoFilter /\ SearchByType(query, object_type, limit)
    \/ \E query \in Queries, project_name \in ProjectArgs, limit \in 1..MaxSearchLimit :
          srchFilter = NoFilter /\ SearchByProject(query, project_name, limit)

SpecFilter == InitFilter /\ [][NextFilter]_vars

----------------------------------------------------------------------------
(* Claims about the store and the embedding generator *)

(* C1: while every upsert call succeeded, the store holds exactly one row per
   distinct (site_id, object_type, object_id) upserted so far, and that row
   carries the title, description, tags, fields, project_name, owner, url and
   text_blob of the last record with that key in call order, duplicates inside
   one batch and across batches and calls included. *)
C1_LastWriteWins ==
    upAllOk =>
        /\ \A e \in expected :
             /\ Cardinality({r \in rows : Key(r) = Key(e)}) = 1
             /\ \A r \in rows : Key(r) = Key(e) => RowData(r) = e
        /\ \A r \in rows : \E e \in expected : Key(e) = Key(r)

(* C1 witness: a call of three records, two of them with one key, all
   upserted: two rows, the shared key carrying the later record's values *)
C1_Witness ==
    /\ upAllOk
    /\ upPc = "idle"
    /\ upRet = Returned(3)
    /\ Cardinality(rows) = 2
    /\ \E r \in rows : RowData(r) = RecordData(RecA2)
    /\ \E r \in rows : RowData(r) = RecordData(RecB)

(* C2: in every reachable state of the store, whatever upserts succeeded,
   failed in part, or were interleaved with embedding runs, no two rows share
   the same (site_id, object_type, object_id). *)
C2_UniqueKeys == \A r1, r2 \in rows : Key(r1) = Key(r2) => r1 = r2

(* C2 witness: upserts that failed in part and an embedding run have both
   happened, and a key written twice is stored once *)
C2_Witness ==
    /\ ~upAllOk
    /\ Cardinality(rows) = 2
    /\ \E r \in rows : RowData(r) = RecordData(RecA2) /\ r.embedding # NULL

(* C6: every upsert that changes the text_blob of a row whose embedding is
   populated sets that row's embedding to null. *)
C6_UpsertClearsEmbedding ==
    [][\A r \in rows : \A q \in rows' :
          (q.id = r.id /\ r.embedding # NULL /\ q.text_blob # r.text_blob)
              => q.embedding = NULL]_vars

(* C7: when an embed_all with no limit has finished without any failure and
   no upsert changed the table since it selected its records, no row has a
   null embedding; and an embed_all started right then selects zero rows,
   updates nothing and is finished at once. *)
C7_DrainLeavesNothing ==
    [][/\ (embPc' = "done" /\ embClean') => Unembedded(rows') = {}
       /\ (embPc = "done" /\ embClean /\ embStats' # embStats
              /\ embStats'.errors = 0 /\ \E limit \in 0..MaxLimit : EmbedStart(limit))
            => (embStats'.total_records = 0 /\ embStats'.processed_records = 0
                  /\ rows' = rows /\ embPc' = "done")]_vars

(* C7 witness: a run without limit that selected two rows has finished
   cleanly, and both rows carry the embedding of their text *)
C7_Witness ==
    /\ embPc = "done"
    /\ embClean
    /\ embStats = [total_records |-> 2, processed_records |-> 2, errors |-> 0]
    /\ Cardinality(rows) = 2
    /\ \A r \in rows : r.embedding = <<Encode(r.text_blob)>>

(* a batch of embed_all has just run, and no row got an embedding: the
   embeddings were not generated or none of them was written back *)
EmbedBatchFailed ==
    embPc = "batching" /\ embRecords' # embRecords /\ rows' = rows

(* C18: when a batch of embed_all has failed, every row of the batch still has
   a null embedding, so that the next embed_all finds it; the run goes on with
   the batches that are left; and the error count has grown by one. *)
C18_EmbedBatchFailureCounted ==
    [][EmbedBatchFailed =>
         /\ \A rec \in embRecords \ embRecords' :
               \A r \in rows' : r.id = rec.id => r \in Unembedded(rows')
         /\ embPc' = IF embRecords' = {} THEN "done" ELSE "batching"
         /\ embStats'.errors = embStats.errors + 1]_vars

(* C21: with upserts and an embedding run interleaved on the same table, the
   run never leaves on a row the embedding of a text the row no longer has:
   every row that a step gives an embedding carries, after the step, the
   embedding of the text_blob it then has; so once both have finished each
   row embedded on the way has the embedding of its current text. *)
C21_DrainNeverWritesStaleEmbedding ==
    [][\A r \in rows : \A q \in rows' :
          (q.id = r.id /\ r.embedding = NULL /\ q.embedding # NULL)
              => q.embedding = <<Encode(q.text_blob)>>]_vars

(* a batch iteration of upsert_records_batch has just run *)
BatchStepped == upLog' # upLog /\ upLog'.batches # <<>>

LastBatch(log) == log.batches[Len(log.batches)]

(* the sum of the counts of the batches whose transaction was committed *)
CommittedCount(log) ==
    SumSeq([i \in 1..Len(log.batches) |->
              IF log.batches[i].committed THEN log.batches[i].count ELSE 0])

(* C14: in upsert_records_batch a batch whose transaction was not committed
   leaves the table as it was; a later batch, after such a failure, whose
   statements all succeed has its records in the table; and when the call has
   returned, every batch of the list was attempted and the returned count is
   the sum of the counts of the batches whose transaction was committed. *)
C14_BatchFailureIsolated ==
    /\ [][(BatchStepped /\ ~LastBatch(upLog').committed) => rows' = rows]_vars
    /\ [][(/\ BatchStepped
           /\ upPc = "running"
           /\ \E i \in 1..Len(upLog.batches) : ~upLog.batches[i].committed
           /\ LastBatch(upLog').committed
           /\ LastBatch(upLog').count = LastBatch(upLog').size)
          => \A d \in LastWrites(SubSeq(upPending, 1, LastBatch(upLog').size)) :
                \E r \in rows' : RowData(r) = d]_vars
    /\ [](upPc = "idle" /\ upLog.batches # <<>> =>
            /\ SumSeq([i \in 1..Len(upLog.batches) |-> upLog.batches[i].size])
                  = upLog.n
            /\ upRet = Returned(CommittedCount(upLog)))

(* C28: every upsert_records call (each batch of upsert_records_batch is one)
   returns a count of at most the records it was given; the records it
   counted are in the table when it has returned, so a call whose transaction
   was not committed has counted none; and a call that counted all its
   records has left each of them, the last of each key, in the table. *)
C28_CountIsPersisted ==
    [][BatchStepped =>
         LET call == LastBatch(upLog')
         IN /\ call.count <= call.size
            /\ call.count > 0 => call.committed
            /\ (upPc = "running" /\ call.count = call.size) =>
                  \A d \in LastWrites(SubSeq(upPending, 1, call.size)) :
                      \E r \in rows' : RowData(r) = d]_vars

----------------------------------------------------------------------------
(* Claims about the quality gate and the indexer *)

(* C3: in an index_site run with quality checks enabled whose quality gate
   returned overall_quality = false, the run has returned without calling
   upsert_records_batch: the table is the table the run started with. *)
C3_BlockedGateWritesNothing ==
    idxGate = "blocked" =>
        /\ idxArgs.enable_quality_checks
        /\ idxPc = "returned"
        /\ upPc = "idle"
        /\ rows = idxRowsBefore

(* C3 witness: a run over a table that earlier runs filled was blocked by one
   record of three; the good record before it was not written *)
C3_Witness ==
    /\ idxGate = "blocked"
    /\ idxPc = "returned"
    /\ rows # {}
    /\ idxRecords = <<RecB, RecA, RecBlank>>
    /\ \A r \in rows : Key(r) # Key(RecB)

(* a record has a blocking failure for a target site *)
BlockingFailure(record, site_id) ==
    \/ record.site_id # site_id
    \/ record.object_id \in {"", NoneStr}
    \/ record.title \in {"", NoneStr}
    \/ record.object_type \in {"", NoneStr}
    \/ record.text_blob = <<>>

(* C4: for a freshly constructed QualityChecker, run_all_checks returns
   overall_quality = true exactly when every record of the batch has the
   checker's site_id and a non-empty object_id, title, object_type and
   text_blob, whatever the advisory checks found; and the batch extended by a
   record with a blocking failure is never passed. *)
C4_GateIsBlockingChecksOnly ==
    qcPc = "checked" =>
        /\ qcResults.overall_quality =
              (\A i \in 1..Len(qcBatch) : ~BlockingFailure(qcBatch[i], qcSelf.site_id))
        /\ \A bad \in QcRecords :
              BlockingFailure(bad, qcSelf.site_id) =>
                  ~run_all_checks(QualityChecker(qcSelf.site_id),
                                  Append(qcBatch, bad)).results.overall_quality

(* C4 witness: a batch of two records without blocking failure passed although
   the advisory checks left warnings, a malformed url among them *)
C4_Witness ==
    /\ qcPc = "checked"
    /\ qcBatch = <<RecB, RecBadUrl>>
    /\ qcResults.overall_quality
    /\ qcResults.issues = <<>>
    /\ \E i \in 1..Len(qcResults.warnings) :
          qcResults.warnings[i].warning = "malformed urls"

(* C26: in every result of run_all_checks, of a checker's first run or of a
   later run on the same checker, overall_quality is true exactly when the
   issues of the result are none. *)
C26_QualityIffNoIssues ==
    qcPc \in {"checked", "rechecked"} =>
        (qcResults.overall_quality <=> qcResults.issues = <<>>)

(* the run has returned after calling upsert_records_batch *)
IndexUpserted ==
    idxPc = "returned" /\ idxGate \in {"passed", "skipped", "crashed"}

(* a batch whose transaction was not committed, or a statement that failed *)
UpsertFailed(log) ==
    \E i \in 1..Len(log.batches) :
        ~log.batches[i].committed \/ log.batches[i].count < log.batches[i].size

(* C15: an index_site run in which a record or a batch failed to upsert
   returns statistics with errors of at least 1. *)
C15_UpsertFailuresCounted ==
    (IndexUpserted /\ UpsertFailed(upLog)) => idxStats.errors >= 1

(* C16: an index_site run whose signin failed has returned without a store
   write, with errors of at least 1 in its statistics, which differ from the
   statistics of a successful run that found no objects. *)
C16_SigninFailureReported ==
    (idxPc = "returned" /\ idxSignin \in {"refused", "raised"}) =>
        /\ rows = idxRowsBefore
        /\ idxRecords = <<>>
        /\ idxStats.errors >= 1
        /\ idxStats # NewStats

(* the records of a list that are of one object type *)
OfType(records, object_type) ==
    Cardinality({i \in 1..Len(records) : records[i].object_type = object_type})

(* C24: the statistics of an index_site run that reached the upsert step
   count, under workbooks, datasources and views, the workbook, datasource and
   view records of the run, and the three counts add up to total_processed. *)
C24_CountsByType ==
    idxPc \in {"gated", "upserting"} \/ IndexUpserted =>
        /\ idxStats.workbooks = OfType(idxRecords, "workbook")
        /\ idxStats.datasources = OfType(idxRecords, "datasource")
        /\ idxStats.views = OfType(idxRecords, "view")
        /\ idxStats.workbooks + idxStats.datasources + idxStats.views
              = idxStats.total_processed

(* C25: an index_site run that has called upsert_records_batch had obtained
   overall_quality = true from the quality gate for the records it handed to
   the call, whether quality checks were enabled or not and whether the
   checker raised or not. *)
C25_WritesAreGated ==
    idxPc = "upserting" \/ IndexUpserted =>
        /\ idxGate = "passed"
        /\ ~GateBlocks(run_all_checks(QualityChecker("S1"), idxRecords).results)

(* C27: an index_site run whose signin succeeded attempts no signout while it
   runs, and has attempted exactly one when it has returned, by whichever
   path: no records, a blocked gate, a failure of the fetch or of the final
   count, or after the upsert; and no exception of that signout has left
   index_site. *)
C27_SignoutExactlyOnce ==
    idxSignin = "ok" =>
        /\ idxSignout.raised = "none"
        /\ idxSignout.attempts = IF idxPc = "returned" THEN 1 ELSE 0

(* C27 witness: a signed-in run that the quality gate blocked has returned
   with an error counted and one signout attempted *)
C27_Witness ==
    /\ idxSignin = "ok"
    /\ idxPc = "returned"
    /\ idxGate = "blocked"
    /\ idxStats.errors = 1
    /\ idxSignout = [attempts |-> 1, raised |-> "none"]

----------------------------------------------------------------------------
(* Claims about the page loops and the platform client *)

(* C5: a page loop over a collection of N items in pages of size P, with no
   page cap and no fetch failure, ends; it has then collected the N items in
   server order and issued exactly floor(N/P) + 1 page requests (one for
   N = 0, a trailing request of an empty page when P divides N). *)
C5_PaginationRequests ==
    /\ [](pgPc = "done" /\ pgClean =>
            /\ pgAll = [i \in 1..pgArgs.n |-> i]
            /\ pgRequests = (pgArgs.n \div pgArgs.page_size) + 1)
    /\ ((pgPc = "fetching") ~> (pgPc = "done"))

(* C5 witness: paginate_requests over four items in pages of two has ended
   after three requests, the third for an empty page *)
C5_Witness ==
    /\ pgPc = "done"
    /\ pgClean
    /\ pgArgs = PgArgs("paginate_requests", 4, 2, 0)
    /\ pgRequests = 3
    /\ pgPage = 3
    /\ pgAll = <<1, 2, 3, 4>>

(* C22: a page loop in which the fetch of a page failed has ended with an
   exception that reaches its caller; it has not returned the pages collected
   before the failure as its result. *)
C22_PageFailureSurfaced ==
    (pgPc = "done" /\ pgOutcome.failed) => pgOutcome.raised # "none"

(* C10: a data call on a client on which no signin has succeeded, or none
   since the last successful signout, ends with the not-authenticated error
   and has sent no request. *)
C10_CallsNeedAuthentication ==
    (cliCall.op \in DataCalls /\ ~cliCall.authenticated) =>
        (cliCall.raised \in {NotAuthenticated, NoSiteId} /\ ~cliCall.sent)

(* C11: every signin that did not succeed returned False, raising nothing,
   and left the client with neither token nor site id. *)
C11_FailedSigninLeavesUnauthenticated ==
    (cliCall.op = "signin" /\ cliCall.ret # "True") =>
        /\ cliCall.ret = "False"
        /\ cliCall.raised = "none"
        /\ cliSelf = TableauClient

(* C12: no signout raises, whatever the client's fields and whatever became
   of the request; it returns False exactly when its request was sent and
   failed, and the client then still holds its token. *)
C12_SignoutNeverRaises ==
    cliCall.op = "signout" =>
        /\ cliCall.raised = "none"
        /\ cliCall.ret \in {"True", "False"}
        /\ ((cliCall.ret = "False") <=> ~NotStr(cliSelf.token))
        /\ ((cliCall.ret = "False") => cliCall.sent)

(* C12 witness: the signout of a client that a failed signin left with a
   token and no site id was sent, failed, and returned False *)
C12_Witness ==
    /\ cliCall.op = "signout"
    /\ cliCall.ret = "False"
    /\ cliCall.sent
    /\ cliCall.raised = "none"
    /\ cliSelf = [token |-> "T1", site_id |-> NoneStr]

(* C13: a fetch_comprehensive_metadata of workbooks and views on a client with
   token and site id whose list requests succeeded, and in which the views request of at
   least one workbook failed, raised nothing and returned every listed
   workbook, every listed datasource if datasources were asked for, and as
   views exactly the views of the workbooks whose request did not fail. *)
C13_ViewsFailureIsolated ==
    (/\ cliCall.op = "fetch_comprehensive_metadata"
     /\ ~NotStr(cliSelf.site_id)
     /\ ~NotStr(cliSelf.token)
     /\ {"workbooks", "views"} \subseteq cliMeta.object_types
     /\ cliMeta.listsOk
     /\ cliMeta.viewsFailed # {}) =>
        LET metadata == cliMeta.metadata
            got == {<<v.id, v.workbook.name>> :
                      v \in {metadata.views[j] : j \in 1..Len(metadata.views)}}
            want == UNION {{<<ServerViews(w)[j].id, ServerWorkbooks[w].name>> :
                               j \in 1..Len(ServerViews(w))} :
                             w \in (1..MaxWorkbooks) \ cliMeta.viewsFailed}
        IN /\ cliCall.raised = "none"
           /\ metadata.workbooks = ServerWorkbooks
           /\ "datasources" \in cliMeta.object_types
                 => metadata.datasources = ServerDatasources
           /\ got = want

(* C13 witness: of two workbooks the views request of the first failed; the
   fetch returned both workbooks, the datasource and the two views of the
   second workbook *)
C13_Witness ==
    /\ cliCall.op = "fetch_comprehensive_metadata"
    /\ cliCall.raised = "none"
    /\ cliMeta.object_types = ObjectTypes
    /\ cliMeta.viewsFailed = {1}
    /\ Len(cliMeta.metadata.workbooks) = MaxWorkbooks
    /\ Len(cliMeta.metadata.datasources) = 1
    /\ Len(cliMeta.metadata.views) >= 2
    /\ \A j \in 1..Len(cliMeta.metadata.views) :
          cliMeta.metadata.views[j].workbook.name # ServerWorkbooks[1].name

(* the number of views the workbooks before the k-th listed one contributed *)
RECURSIVE ViewsBefore(_, _, _)
ViewsBefore(listed, viewsFailed, k) ==
    IF k <= 1 THEN 0
    ELSE ViewsBefore(listed, viewsFailed, k - 1)
         + (IF listed[k - 1].id \in viewsFailed THEN 0
            ELSE Len(ServerViews(listed[k - 1].id)))

(* C29: the views a fetch_comprehensive_metadata returned are, workbook after
   workbook in the order of the workbooks listed in the same call, the views
   fetched for that workbook in the platform's order, each carrying the name
   and the project of that workbook, and nothing else; a call that asked for
   views without workbooks listed no workbook and returned no view. *)
C29_ViewsFollowListedWorkbooks ==
    (/\ cliCall.op = "fetch_comprehensive_metadata"
     /\ cliCall.raised = "none"
     /\ "views" \in cliMeta.object_types) =>
        LET listed == cliMeta.metadata.workbooks
            views == cliMeta.metadata.views
            failed == cliMeta.viewsFailed
        IN /\ Len(views) = ViewsBefore(listed, failed, Len(listed) + 1)
           /\ \A k \in 1..Len(listed) :
                 listed[k].id \notin failed =>
                   \A j \in 1..Len(ServerViews(listed[k].id)) :
                      views[ViewsBefore(listed, failed, k) + j] =
                         [id |-> ServerViews(listed[k].id)[j].id,
                          workbook |-> [name |-> listed[k].name,
                                        projectName |-> listed[k].project]]
           /\ "workbooks" \notin cliMeta.object_types =>
                 listed = <<>> /\ views = <<>>

(* C29 witness: a fetch of workbooks and views in which no views request
   failed returned the views of every workbook, the first view under the first
   workbook and the last view under the last one *)
C29_Witness ==
    /\ cliCall.op = "fetch_comprehensive_metadata"
    /\ cliCall.raised = "none"
    /\ {"workbooks", "views"} \subseteq cliMeta.object_types
    /\ cliMeta.viewsFailed = {}
    /\ Len(cliMeta.metadata.workbooks) = MaxWorkbooks
    /\ Len(cliMeta.metadata.views) > MaxWorkbooks
    /\ cliMeta.metadata.views[1].workbook.name = ServerWorkbooks[1].name
    /\ cliMeta.metadata.views[Len(cliMeta.metadata.views)].workbook.name
          = ServerWorkbooks[MaxWorkbooks].name

(* C17: at every time, the requests a RateLimiter sent within the window that
   ends at that time are at most max_requests_per_minute. *)
C17_RateWithinWindow ==
    \A t \in 0..MaxTime :
        Cardinality({i \in 1..Len(rlIssued) :
                       t - RateWindow < rlIssued[i] /\ rlIssued[i] <= t})
            <= rlSelf.max_requests_per_minute

----------------------------------------------------------------------------
(* Claims about the normalizer *)

(* C19: every record a builder produced with a non-empty title, also a title
   of whitespace only, has a non-empty text_blob. *)
C19_TextBlobNonEmpty ==
    (nzOut.builder # "none" /\ nzOut.record.title \notin {"", NoneStr}) =>
        nzOut.record.text_blob # ""

(* C20: every record a builder produced has strings, never None, as title,
   description, project_name and owner: the empty string where the payload
   lacks the value or holds None for it. *)
C20_AttributesNeverNone ==
    nzOut.builder # "none" =>
        LET p == nzOut.payload
            record == nzOut.record
            Lacks(field) == p[field] \in {Absent, NoneStr}
        IN /\ NoneStr \notin {record.title, record.description,
                              record.project_name, record.owner}
           /\ Lacks("name") => record.title = ""
           /\ Lacks("description") => record.description = ""
           /\ Lacks("project") => record.project_name = ""
           /\ Lacks("owner") => record.owner = ""

----------------------------------------------------------------------------
(* Claims about the search *)

(* C8: a search with a non-empty query over a table in which no row has an
   embedding answers with the lexical ranking over text_blob, cut at limit and
   with no threshold applied (with nothing if the text query itself failed);
   the missing embeddings make no call fail. *)
C8_LexicalFallback ==
    [][(srchCall' # srchCall /\ srchCall'.query # <<>>
          /\ \A r \in rows : r.embedding = NULL)
        => /\ srchCall'.path \in {"text", "text_failed"}
           /\ srchCall'.path = "text" =>
                 srchCall'.results \in
                     _text_search(rows, srchCall'.query, srchCall'.limit, TRUE)
           /\ srchCall'.path = "text_failed" => srchCall'.results = <<>>
           /\ Len(srchCall'.results) <= srchCall'.limit]_vars

(* C8 witness: two rows without embedding match the query; the search with
   limit 1 and threshold 0.9 returned one of them with its rank *)
C8_Witness ==
    /\ Cardinality(rows) = 2
    /\ \A r \in rows : r.embedding = NULL /\ TextMatches(r.text_blob, <<"finance">>)
    /\ srchCall.query = <<"finance">>
    /\ srchCall.limit = 1
    /\ srchCall.threshold = 90
    /\ srchCall.path = "text"
    /\ Len(srchCall.results) = 1
    /\ srchCall.results[1].similarity_score = RankUnit

(* a list is another with some elements left out, the order kept *)
IsSubsequence(sub, seq) ==
    \E f \in [1..Len(sub) -> 1..Len(seq)] :
        /\ \A i \in 1..Len(sub) : seq[f[i]] = sub[i]
        /\ \A i, j \in 1..Len(sub) : i < j => f[i] < f[j]

(* C23: what search_by_type returned is the list its search(query, 2 * limit)
   returned with rows left out and none moved, holds only rows of exactly the
   type asked for, and has at most limit rows; what search_by_project returned
   is the same with the rows whose project_name contains the project asked
   for, letter case ignored.  Of the matching rows the first limit are
   returned. *)
C23_FilterKeepsRanking ==
    (srchFilter.op \in {"search_by_type", "search_by_project"}
        /\ srchFilter.raised = "none") =>
        LET results == srchFilter.results
            base == srchFilter.base
            Matches(r) ==
                IF srchFilter.op = "search_by_type"
                THEN r.object_type = srchFilter.arg
                ELSE Contains(Lower(r.project_name), Lower(srchFilter.arg))
            matching == {i \in 1..Len(base) : Matches(base[i])}
        IN /\ base = srchCall.results
           /\ srchCall.limit = 2 * srchFilter.limit
           /\ IsSubsequence(results, base)
           /\ \A i \in 1..Len(results) : Matches(results[i])
           /\ Len(results) = Min(srchFilter.limit, Cardinality(matching))

(* C23 witness: of two rows of project Finance that the search for "finance"
   returned, search_by_project("Fin", limit 1) returned the first *)
C23_Witness ==
    /\ srchFilter.op = "search_by_project"
    /\ srchFilter.arg = "Fin"
    /\ srchFilter.limit = 1
    /\ srchFilter.raised = "none"
    /\ Len(srchFilter.base) = 2
    /\ srchFilter.results = <<srchFilter.base[1]>>
    /\ srchFilter.results[1].project_name = "Finance"

(* C30: no search_by_project raises, whatever rows the table holds, rows
   without project_name among them. *)
C30_ProjectSearchNeverRaises ==
    srchFilter.op = "search_by_project" => srchFilter.raised = "none"

(* C9 as stated: every row a search returned has a score of at least the
   threshold, and at most limit rows were returned. *)
C9_ScoresReachThreshold ==
    /\ Len(srchCall.results) <= srchCall.limit
    /\ \A i \in 1..Len(srchCall.results) :
          srchCall.results[i].similarity_score >= srchCall.threshold

(* C9 amended: a search returned at most limit rows; every row it returned
   from the vector search has a similarity of at least the threshold; rows
   with a score below the threshold come from the text search only, which it
   falls back to when the vector search yields no row. *)
C9_VectorScoresReachThreshold ==
    /\ Len(srchCall.results) <= srchCall.limit
    /\ srchCall.path = "vector" =>
          /\ srchCall.results # <<>>
          /\ \A i \in 1..Len(srchCall.results) :
                srchCall.results[i].similarity_score >= srchCall.threshold
    /\ (\E i \in 1..Len(srchCall.results) :
           srchCall.results[i].similarity_score < srchCall.threshold)
          => srchCall.path = "text"

(* C9 witness: of two embedded rows the vector search with threshold 0.3 kept
   the one with similarity 0.5 and dropped the other *)
C9_Witness ==
    /\ Cardinality(rows) = 2
    /\ \A r \in rows : r.embedding # NULL
    /\ srchCall.query = <<"finance">>
    /\ srchCall.limit = 2
    /\ srchCall.threshold = 30
    /\ srchCall.path = "vector"
    /\ Len(srchCall.results) = 1
    /\ srchCall.results[1].similarity_score = 50

====
